---- MODULE Spec2Model ----
(***************************************************************************)
(* OUROCHRONOS: the epoch interpreter (src/src/vm.rs), the memory and      *)
(* value primitives (src/src/core_types.rs, src/src/provenance.rs), the    *)
(* statement tree (src/src/ast.rs) and the fixed-point driver              *)
(* (src/src/timeloop.rs).                                                  *)
(*                                                                         *)
(* A u64 is a tuple of eight bytes, least significant first, so that the   *)
(* wrapping arithmetic and the hash mixing are computed at their real      *)
(* width.  An Address (u16) is an integer in 0..65535.                     *)
(***************************************************************************)
EXTENDS Integers, Sequences, FiniteSets, TLC

(***************************************************************************)
(* u64 arithmetic                                                          *)
(***************************************************************************)
LIMBS == 8

BYTE == 256

MEMORY_SIZE == 65536

U64(n) ==
    << (n % 256), (n \div 256) % 256, (n \div 65536) % 256,
       (n \div 16777216) % 256, 0, 0, 0, 0 >>

ZERO64 == U64(0)

MAX64 == << 255, 255, 255, 255, 255, 255, 255, 255 >>

\* the value of a u64 that is known to be small (below 2^24), else a cap
Small(a) ==
    IF a[4] = 0 /\ a[5] = 0 /\ a[6] = 0 /\ a[7] = 0 /\ a[8] = 0
    THEN a[1] + 256 * a[2] + 65536 * a[3]
    ELSE 16777216

\* `as Address`: u64 narrowed to u16
AsAddress(a) == a[1] + 256 * a[2]

Limb(a, i) == IF i >= 1 /\ i <= LIMBS THEN a[i] ELSE 0

\* the eight limbs F(1) .. F(8), as a tuple
Limbs8(F(_)) == << F(1), F(2), F(3), F(4), F(5), F(6), F(7), F(8) >>

RECURSIVE AddCarry(_, _, _, _)
AddCarry(a, b, i, carry) ==
    IF i > LIMBS THEN << >>
    ELSE LET s == a[i] + b[i] + carry
         IN  << s % BYTE >> \o AddCarry(a, b, i + 1, s \div BYTE)

wrapping_add(a, b) == AddCarry(a, b, 1, 0)

bit_not(a) == LET F(i) == 255 - a[i] IN Limbs8(F)

wrapping_neg(a) == AddCarry(bit_not(a), ZERO64, 1, 1)

wrapping_sub(a, b) == AddCarry(a, bit_not(b), 1, 1)

RECURSIVE ColSum(_, _, _, _)
ColSum(a, b, k, i) ==
    IF i > k THEN 0 ELSE a[i] * b[k + 1 - i] + ColSum(a, b, k, i + 1)

RECURSIVE MulCarry(_, _, _, _)
MulCarry(a, b, k, carry) ==
    IF k > LIMBS THEN << >>
    ELSE LET s == ColSum(a, b, k, 1) + carry
         IN  << s % BYTE >> \o MulCarry(a, b, k + 1, s \div BYTE)

wrapping_mul(a, b) == MulCarry(a, b, 1, 0)

Pow2(k) ==
    CASE k = 0 -> 1 [] k = 1 -> 2 [] k = 2 -> 4 [] k = 3 -> 8 [] k = 4 -> 16
      [] k = 5 -> 32 [] k = 6 -> 64 [] k = 7 -> 128 [] OTHER -> 256

BitAt(x, i) == (x \div Pow2(i)) % 2

XorNib == [x \in 0..15 |-> [y \in 0..15 |->
             ((BitAt(x, 0) + BitAt(y, 0)) % 2)
           + 2 * ((BitAt(x, 1) + BitAt(y, 1)) % 2)
           + 4 * ((BitAt(x, 2) + BitAt(y, 2)) % 2)
           + 8 * ((BitAt(x, 3) + BitAt(y, 3)) % 2)]]

AndNib == [x \in 0..15 |-> [y \in 0..15 |->
             (BitAt(x, 0) * BitAt(y, 0))
           + 2 * (BitAt(x, 1) * BitAt(y, 1))
           + 4 * (BitAt(x, 2) * BitAt(y, 2))
           + 8 * (BitAt(x, 3) * BitAt(y, 3))]]

XorByte(x, y) == XorNib[x % 16][y % 16] + 16 * XorNib[x \div 16][y \div 16]

AndByte(x, y) == AndNib[x % 16][y % 16] + 16 * AndNib[x \div 16][y \div 16]

bit_xor(a, b) == LET F(i) == XorByte(a[i], b[i]) IN Limbs8(F)

bit_and(a, b) == LET F(i) == AndByte(a[i], b[i]) IN Limbs8(F)

bit_or(a, b) == LET F(i) == a[i] + b[i] - AndByte(a[i], b[i]) IN Limbs8(F)

\* a >> k for 0 <= k < 64
wrapping_shr(a, k) ==
    LET q == k \div 8
        r == k % 8
        F(i) == ((Limb(a, i + q) \div Pow2(r))
                 + ((Limb(a, i + q + 1) * Pow2(8 - r)) % BYTE)) % BYTE
    IN  Limbs8(F)

\* a << k for 0 <= k < 64
wrapping_shl(a, k) ==
    LET q == k \div 8
        r == k % 8
        F(i) == (((Limb(a, i - q) * Pow2(r)) % BYTE)
                 + (Limb(a, i - q - 1) \div Pow2(8 - r))) % BYTE
    IN  Limbs8(F)

RECURSIVE LtFrom(_, _, _)
LtFrom(a, b, i) ==
    IF i < 1 THEN FALSE
    ELSE IF a[i] # b[i] THEN a[i] < b[i]
    ELSE LtFrom(a, b, i - 1)

u64_lt(a, b) == LtFrom(a, b, LIMBS)

u64_le(a, b) == ~ u64_lt(b, a)

BitOf(a, i) == BitAt(a[(i \div 8) + 1], i % 8)

\* restoring long division, one bit of the dividend per step, from bit 63
RECURSIVE DivStep(_, _, _, _, _)
DivStep(a, b, i, q, r) ==
    IF i < 0 THEN << q, r >>
    ELSE LET top == BitOf(r, 63)
             r2  == wrapping_add(wrapping_shl(r, 1), U64(BitOf(a, i)))
             ge  == top = 1 \/ u64_le(b, r2)
             q3  == IF ge THEN wrapping_add(wrapping_shl(q, 1), U64(1))
                          ELSE wrapping_shl(q, 1)
             r3  == IF ge THEN wrapping_sub(r2, b) ELSE r2
         IN  IF q3[1] >= 0 /\ r3[1] >= 0
             THEN DivStep(a, b, i - 1, q3, r3)
             ELSE << q3, r3 >>

wrapping_div(a, b) == DivStep(a, b, 63, ZERO64, ZERO64)[1]

wrapping_rem(a, b) == DivStep(a, b, 63, ZERO64, ZERO64)[2]

(***************************************************************************)
(* Provenance, Value, Memory                                               *)
(***************************************************************************)
\* Provenance: None is the empty set, Some(set) a nonempty set of addresses
ProvNone == {}

ProvSingle(addr) == {addr}

ProvMerge(p1, p2) == p1 \cup p2

Value(v) == [val |-> v, prov |-> ProvNone]

ValueWithProv(v, p) == [val |-> v, prov |-> p]

VZERO == Value(ZERO64)

Lit(n) == Value(U64(n))

to_bool(v) == v.val # ZERO64

from_bool_with_prov(b, p) == [val |-> IF b THEN U64(1) ELSE ZERO64, prov |-> p]

HASH_K1 == << 149, 10, 34, 39, 183, 193, 124, 81 >>   \* 0x517cc1b727220a95

HASH_K2 == << 83, 236, 133, 26, 254, 185, 206, 196 >>  \* 0xc4ceb9fe1a85ec53

\* h ^= h >> 33
XorShift33(h) == bit_xor(h, wrapping_shr(h, 33))

hash_mix(addr, val) ==
    IF val = ZERO64 THEN ZERO64
    ELSE XorShift33(wrapping_mul(
            XorShift33(wrapping_add(wrapping_mul(val, HASH_K1), U64(addr))), HASH_K2))

\* A Memory holds its cells sparsely: a cell outside DOMAIN cells is
\* Value::ZERO, as left by vec![Value::ZERO; MEMORY_SIZE].
MemoryNew == [cells |-> << >>, cached_hash |-> ZERO64]

MemRead(m, addr) == IF addr \in DOMAIN m.cells THEN m.cells[addr] ELSE VZERO

\* a write that adds the new contribution and leaves the old one in
MemWrite_keep_old(m, addr, v) ==
    [cells |-> (addr :> v) @@ m.cells,
     cached_hash |->
        IF MemRead(m, addr).val # v.val
        THEN bit_xor(m.cached_hash, hash_mix(addr, v.val))
        ELSE m.cached_hash]

MemWrite(m, addr, v) ==
    LET old_val == MemRead(m, addr).val
        new_val == v.val
    IN  [cells |-> (addr :> v) @@ m.cells,
         cached_hash |->
            IF old_val # new_val
            THEN bit_xor(bit_xor(m.cached_hash, hash_mix(addr, old_val)),
                         hash_mix(addr, new_val))
            ELSE m.cached_hash]

values_equal(m1, m2) ==
    \A a \in (DOMAIN m1.cells) \cup (DOMAIN m2.cells) :
        MemRead(m1, a).val = MemRead(m2, a).val

\* Memory::diff, as the set of the addresses it lists in increasing order
MemDiff(m1, m2) ==
    { a \in (DOMAIN m1.cells) \cup (DOMAIN m2.cells) :
        MemRead(m1, a).val # MemRead(m2, a).val }

non_zero_cells(m) ==
    { << a, m.cells[a].val >> : a \in { b \in DOMAIN m.cells : m.cells[b].val # ZERO64 } }

state_hash(m) == m.cached_hash

(***************************************************************************)
(* Statement tree (ast.rs)                                                 *)
(***************************************************************************)
Op(o) == [k |-> "Op", op |-> o]

Push(n) == [k |-> "Push", v |-> Lit(n)]

PushV(v) == [k |-> "Push", v |-> Value(v)]

If(t, e) == [k |-> "If", then_branch |-> t, has_else |-> TRUE, else_branch |-> e]

IfThen(t) == [k |-> "If", then_branch |-> t, has_else |-> FALSE, else_branch |-> << >>]

While(c, b) == [k |-> "While", cond |-> c, body |-> b]

Block(b) == [k |-> "Block", stmts |-> b]

Call(n) == [k |-> "Call", name |-> n]

\* cases: a sequence of << pattern, body >>
Match(c, d) == [k |-> "Match", cases |-> c, has_default |-> TRUE, default |-> d]

MatchNoDefault(c) == [k |-> "Match", cases |-> c, has_default |-> FALSE, default |-> << >>]

TemporalScope(b, sz, body) == [k |-> "TemporalScope", base |-> b, size |-> sz, body |-> body]

RECURSIVE contains_oracle(_)
contains_oracle(stmts) ==
    \E i \in 1..Len(stmts) :
        LET stmt == stmts[i] IN
        CASE stmt.k = "Op" -> stmt.op = "Oracle"
          [] stmt.k = "If" ->
                contains_oracle(stmt.then_branch)
                \/ (stmt.has_else /\ contains_oracle(stmt.else_branch))
          [] stmt.k = "While" ->
                contains_oracle(stmt.cond) \/ contains_oracle(stmt.body)
          [] stmt.k = "Block" -> contains_oracle(stmt.stmts)
          [] stmt.k = "TemporalScope" -> contains_oracle(stmt.body)
          [] OTHER -> FALSE

\* a driver that never takes the shortcut
is_trivially_consistent_never(program) == FALSE

is_trivially_consistent(program) == ~ contains_oracle(program.body)

(***************************************************************************)
(* Epoch interpreter (vm.rs)                                               *)
(***************************************************************************)
Running == [tag |-> "Running", msg |-> ""]

Finished == [tag |-> "Finished", msg |-> ""]

ParadoxStatus == [tag |-> "Paradox", msg |-> ""]

ErrorStatus(e) == [tag |-> "Error", msg |-> e]

\* err is the Err(e) of the Result that `?` is propagating ("" while Ok);
\* panicked: the thread is unwinding from a panic.
\* a state whose present starts as a copy of the anamnesis
VmStateNew_overlay(anamnesis, cursor, stdin) ==
    [stack |-> << >>, present |-> anamnesis, anamnesis |-> anamnesis,
     output |-> << >>, status |-> Running, instructions_executed |-> 0,
     input_cursor |-> cursor, stdin |-> stdin, err |-> "", panicked |-> FALSE]

VmStateNew(anamnesis, cursor, stdin) ==
    [stack |-> << >>, present |-> MemoryNew, anamnesis |-> anamnesis,
     output |-> << >>, status |-> Running, instructions_executed |-> 0,
     input_cursor |-> cursor, stdin |-> stdin, err |-> "", panicked |-> FALSE]

Failed(st) == st.err # "" \/ st.panicked

Raise(st, e) == [st EXCEPT !.err = e]

Panic(st, e) == [st EXCEPT !.panicked = TRUE, !.err = e]

\* self.pop(state)? on an empty stack, after the pops before it succeeded
Underflow(st) == [st EXCEPT !.stack = << >>, !.err = "Stack underflow"]

Depth(st) == Len(st.stack)

Peek(st, n) == st.stack[Len(st.stack) - n]

Drop(st, n) == SubSeq(st.stack, 1, Len(st.stack) - n)

PushVal(st, n, v) == [st EXCEPT !.stack = Append(Drop(st, n), v)]

\* pop b, pop a, push F(a, b)
Binary(st, F(_, _)) ==
    IF Depth(st) < 2 THEN Underflow(st)
    ELSE PushVal(st, 2, F(Peek(st, 1), Peek(st, 0)))

Arith(F(_, _), a, b) == [val |-> F(a.val, b.val), prov |-> ProvMerge(a.prov, b.prov)]

ValueAdd(a, b) == Arith(wrapping_add, a, b)

ValueSub(a, b) == Arith(wrapping_sub, a, b)

ValueMul(a, b) == Arith(wrapping_mul, a, b)

\* a division whose zero-divisor result is the constant Value::ZERO
ValueDiv_zero_plain(a, b) ==
    IF b.val = ZERO64 THEN VZERO
    ELSE [val |-> wrapping_div(a.val, b.val), prov |-> ProvMerge(a.prov, b.prov)]

ValueDiv(a, b) ==
    [val |-> IF b.val = ZERO64 THEN ZERO64 ELSE wrapping_div(a.val, b.val),
     prov |-> ProvMerge(a.prov, b.prov)]

ValueRem(a, b) ==
    [val |-> IF b.val = ZERO64 THEN ZERO64 ELSE wrapping_rem(a.val, b.val),
     prov |-> ProvMerge(a.prov, b.prov)]

ValueNot(a) == [val |-> bit_not(a.val), prov |-> a.prov]

ValueAnd(a, b) == Arith(bit_and, a, b)

ValueOr(a, b) == Arith(bit_or, a, b)

ValueXor(a, b) == Arith(bit_xor, a, b)

ValueShl(a, n) ==
    [val |-> wrapping_shl(a.val, n.val[1] % 64), prov |-> ProvMerge(a.prov, n.prov)]

ValueShr(a, n) ==
    [val |-> wrapping_shr(a.val, n.val[1] % 64), prov |-> ProvMerge(a.prov, n.prov)]

Compare(R(_, _), a, b) == from_bool_with_prov(R(a.val, b.val), ProvMerge(a.prov, b.prov))

CmpEq(x, y) == x = y

CmpNeq(x, y) == x # y

CmpGt(x, y) == u64_lt(y, x)

CmpGte(x, y) == u64_le(y, x)

\* u16 + u16: overflow panics when the build has overflow checks (debug
\* profile) and wraps when it has none (release profile)
AddrOverflows(base, off) == base + off >= MEMORY_SIZE

AddrAdd(base, off) == (base + off) % MEMORY_SIZE

\* Values with a count of UNPACK_LIMIT or more are not pushed one by one:
\* the loop of Unpack then ends in the allocator's abort.
UNPACK_LIMIT == 16777216

RECURSIVE PackLoop(_, _, _, _, _)
PackLoop(ex, st, base, n, i) ==
    IF i >= Small(n) THEN st
    ELSE IF Depth(st) = 0 THEN Underflow(st)
    ELSE LET off == (AsAddress(n) + MEMORY_SIZE + MEMORY_SIZE - 1 - (i % MEMORY_SIZE)) % MEMORY_SIZE
             val == Peek(st, 0)
             st1 == [st EXCEPT !.stack = Drop(st, 1)]
         IN  IF AddrOverflows(base, off) /\ ex.overflow_checks
             THEN Panic(st1, "attempt to add with overflow")
             ELSE PackLoop(ex, [st1 EXCEPT !.present = MemWrite(st1.present, AddrAdd(base, off), val)],
                           base, n, i + 1)

RECURSIVE UnpackLoop(_, _, _, _, _)
UnpackLoop(ex, st, base, n, i) ==
    IF i >= Small(n) THEN st
    ELSE LET off == i % MEMORY_SIZE IN
         IF AddrOverflows(base, off) /\ ex.overflow_checks
         THEN Panic(st, "attempt to add with overflow")
         ELSE UnpackLoop(ex, [st EXCEPT !.stack = Append(st.stack, MemRead(st.present, AddrAdd(base, off)))],
                         base, n, i + 1)

\* a Pick that counts from the bottom of the stack
Pick_from_bottom(st) ==
    IF Depth(st) < 1 THEN Underflow(st)
    ELSE LET n == Small(Peek(st, 0).val)
             st1 == [st EXCEPT !.stack = Drop(st, 1)]
             len == Depth(st1)
         IN  IF n >= len THEN Raise(st1, "Pick out of bounds")
             ELSE PushVal(st1, 0, st1.stack[n + 1])

Pick(st) ==
    IF Depth(st) < 1 THEN Underflow(st)
    ELSE LET n == Small(Peek(st, 0).val)
             st1 == [st EXCEPT !.stack = Drop(st, 1)]
             len == Depth(st1)
         IN  IF n >= len THEN Raise(st1, "Pick out of bounds")
             ELSE PushVal(st1, 0, st1.stack[(len - 1 - n) + 1])

\* an Oracle that leaves out the provenance of the address
Oracle_address_unmarked(st) ==
    IF Depth(st) < 1 THEN Underflow(st)
    ELSE LET addr_val == Peek(st, 0)
             addr == AsAddress(addr_val.val)
             val == MemRead(st.anamnesis, addr)
         IN  PushVal(st, 1,
                [val |-> val.val, prov |-> ProvMerge(val.prov, ProvSingle(addr))])

Oracle(st) ==
    IF Depth(st) < 1 THEN Underflow(st)
    ELSE LET addr_val == Peek(st, 0)
             addr == AsAddress(addr_val.val)
             val == MemRead(st.anamnesis, addr)
         IN  PushVal(st, 1,
                [val |-> val.val,
                 prov |-> ProvMerge(ProvMerge(val.prov, ProvSingle(addr)), addr_val.prov)])

execute_op(ex, op, st) ==
    CASE op = "Nop" -> st
      [] op = "Halt" -> [st EXCEPT !.status = Finished]
      [] op = "Pop" -> IF Depth(st) < 1 THEN Underflow(st) ELSE [st EXCEPT !.stack = Drop(st, 1)]
      [] op = "Dup" -> IF Depth(st) < 1 THEN Underflow(st) ELSE PushVal(st, 0, Peek(st, 0))
      [] op = "Pick" -> Pick(st)
      [] op = "Swap" ->
            IF Depth(st) < 2 THEN Underflow(st)
            ELSE [st EXCEPT !.stack = Drop(st, 2) \o << Peek(st, 0), Peek(st, 1) >>]
      [] op = "Over" ->
            IF Depth(st) < 2 THEN Raise(st, "Stack underflow: OVER requires 2 elements")
            ELSE PushVal(st, 0, Peek(st, 1))
      [] op = "Rot" ->
            IF Depth(st) < 3 THEN Raise(st, "Stack underflow: ROT requires 3 elements")
            ELSE [st EXCEPT !.stack = Drop(st, 3) \o << Peek(st, 1), Peek(st, 0), Peek(st, 2) >>]
      [] op = "Depth" -> PushVal(st, 0, Lit(Depth(st)))
      [] op = "Add" -> Binary(st, ValueAdd)
      [] op = "Sub" -> Binary(st, ValueSub)
      [] op = "Mul" -> Binary(st, ValueMul)
      [] op = "Div" -> Binary(st, ValueDiv)
      [] op = "Mod" -> Binary(st, ValueRem)
      [] op = "Neg" ->
            IF Depth(st) < 1 THEN Underflow(st)
            ELSE PushVal(st, 1, [val |-> wrapping_neg(Peek(st, 0).val), prov |-> Peek(st, 0).prov])
      [] op = "Not" -> IF Depth(st) < 1 THEN Underflow(st) ELSE PushVal(st, 1, ValueNot(Peek(st, 0)))
      [] op = "And" -> Binary(st, ValueAnd)
      [] op = "Or" -> Binary(st, ValueOr)
      [] op = "Xor" -> Binary(st, ValueXor)
      [] op = "Shl" -> Binary(st, ValueShl)
      [] op = "Shr" -> Binary(st, ValueShr)
      [] op = "Eq" -> Binary(st, LAMBDA a, b : Compare(CmpEq, a, b))
      [] op = "Neq" -> Binary(st, LAMBDA a, b : Compare(CmpNeq, a, b))
      [] op = "Lt" -> Binary(st, LAMBDA a, b : Compare(u64_lt, a, b))
      [] op = "Gt" -> Binary(st, LAMBDA a, b : Compare(CmpGt, a, b))
      [] op = "Lte" -> Binary(st, LAMBDA a, b : Compare(u64_le, a, b))
      [] op = "Gte" -> Binary(st, LAMBDA a, b : Compare(CmpGte, a, b))
      [] op = "Oracle" -> Oracle(st)
      [] op = "Prophecy" ->
            IF Depth(st) < 2 THEN Underflow(st)
            ELSE LET addr == AsAddress(Peek(st, 0).val)
                     val == Peek(st, 1)
                 IN  [st EXCEPT !.stack = Drop(st, 2),
                                !.present = MemWrite(st.present, addr, val)]
      [] op = "PresentRead" ->
            IF Depth(st) < 1 THEN Underflow(st)
            ELSE LET addr_val == Peek(st, 0)
                     val == MemRead(st.present, AsAddress(addr_val.val))
                 IN  PushVal(st, 1, [val |-> val.val, prov |-> ProvMerge(val.prov, addr_val.prov)])
      [] op = "Paradox" -> [st EXCEPT !.status = ParadoxStatus]
      [] op = "Input" ->
            IF st.input_cursor < Len(ex.config.input)
            THEN [st EXCEPT !.stack = Append(st.stack, Value(ex.config.input[st.input_cursor + 1])),
                            !.input_cursor = st.input_cursor + 1]
            ELSE \* read_input_interactive: the next line of stdin, 0 at end of file
                 IF st.stdin = << >>
                 THEN [st EXCEPT !.stack = Append(st.stack, VZERO)]
                 ELSE [st EXCEPT !.stack = Append(st.stack, Value(Head(st.stdin))),
                                 !.stdin = Tail(st.stdin)]
      [] op = "Output" ->
            IF Depth(st) < 1 THEN Underflow(st)
            ELSE [st EXCEPT !.stack = Drop(st, 1), !.output = Append(st.output, Peek(st, 0))]
      [] op = "Pack" ->
            IF Depth(st) < 2 THEN Underflow(st)
            ELSE PackLoop(ex, [st EXCEPT !.stack = Drop(st, 2)],
                          AsAddress(Peek(st, 1).val), Peek(st, 0).val, 0)
      [] op = "Unpack" ->
            IF Depth(st) < 2 THEN Underflow(st)
            ELSE IF Small(Peek(st, 0).val) >= UNPACK_LIMIT
                 THEN Panic([st EXCEPT !.stack = Drop(st, 2)],
                            IF ex.overflow_checks /\ AsAddress(Peek(st, 1).val) # 0
                            THEN "attempt to add with overflow"
                            ELSE "memory allocation failed")
                 ELSE UnpackLoop(ex, [st EXCEPT !.stack = Drop(st, 2)],
                                 AsAddress(Peek(st, 1).val), Peek(st, 0).val, 0)
      [] op = "Index" ->
            IF Depth(st) < 2 THEN Underflow(st)
            ELSE LET index == AsAddress(Peek(st, 0).val)
                     base == AsAddress(Peek(st, 1).val)
                     st1 == [st EXCEPT !.stack = Drop(st, 2)]
                 IN  IF AddrOverflows(base, index) /\ ex.overflow_checks
                     THEN Panic(st1, "attempt to add with overflow")
                     ELSE PushVal(st1, 0, MemRead(st1.present, AddrAdd(base, index)))
      [] op = "Store" ->
            IF Depth(st) < 3 THEN Underflow(st)
            ELSE LET index == AsAddress(Peek(st, 0).val)
                     base == AsAddress(Peek(st, 1).val)
                     val == Peek(st, 2)
                     st1 == [st EXCEPT !.stack = Drop(st, 3)]
                 IN  IF AddrOverflows(base, index) /\ ex.overflow_checks
                     THEN Panic(st1, "attempt to add with overflow")
                     ELSE [st1 EXCEPT !.present = MemWrite(st1.present, AddrAdd(base, index), val)]

\* the window [base, base + size) of a TemporalScope
InWindow(stmt, a) == a >= stmt.base /\ a < stmt.base + stmt.size

\* the cells of cs put back to what they hold in the snapshot
RECURSIVE RestoreWindow(_, _, _)
RestoreWindow(present, snapshot, cs) ==
    IF cs = {} THEN present
    ELSE LET a == CHOOSE x \in cs : \A y \in cs : x <= y
         IN  RestoreWindow(MemWrite(present, a, MemRead(snapshot, a)), snapshot, cs \ {a})

\* a TemporalScope that commits the window also when its body raised a paradox
ScopeExit_keep(stmt, snapshot, st) == st

\* leaving a TemporalScope entered with the present `snapshot`: a body that
\* ended normally has its writes committed; after a paradox the cells of the
\* window are put back to the snapshot and the paradox goes on outward
ScopeExit(stmt, snapshot, st) ==
    IF st.status.tag = "Paradox"
    THEN [st EXCEPT !.present =
            RestoreWindow(st.present, snapshot,
                          {a \in DOMAIN st.present.cells : InWindow(stmt, a)})]
    ELSE st

RECURSIVE execute_block(_, _, _, _)
RECURSIVE execute_stmt(_, _, _)
RECURSIVE WhileLoop(_, _, _)
RECURSIVE MatchBody(_, _, _, _)
RECURSIVE BlockRest(_, _, _, _)
RECURSIVE MatchRest(_, _, _, _)
RECURSIVE WhileTest(_, _, _)
RECURSIVE WhileAgain(_, _, _)

\* execute_block from the i-th statement of stmts on
execute_block(ex, stmts, i, st) ==
    IF i > Len(stmts) THEN st
    ELSE IF st.status.tag # "Running" THEN st
    ELSE IF st.instructions_executed >= ex.config.max_instructions
         THEN [st EXCEPT !.status = ErrorStatus("Instruction limit exceeded")]
    ELSE BlockRest(ex, stmts, i, execute_stmt(ex, stmts[i], st))

\* `self.execute_stmt(stmt, state)?` of execute_block: st1 is the state
\* the i-th statement left
BlockRest(ex, stmts, i, st1) ==
    IF Failed(st1) THEN st1 ELSE execute_block(ex, stmts, i + 1, st1)

\* the `for stmt in body { self.execute_stmt(stmt, state)?; }` of Match
MatchBody(ex, body, i, st) ==
    IF i > Len(body) THEN st
    ELSE MatchRest(ex, body, i, execute_stmt(ex, body[i], st))

MatchRest(ex, body, i, st1) ==
    IF Failed(st1) THEN st1 ELSE MatchBody(ex, body, i + 1, st1)

\* one pass of the `loop` of Stmt::While
WhileLoop(ex, stmt, st) ==
    IF st.status.tag # "Running" THEN st
    ELSE WhileTest(ex, stmt, execute_block(ex, stmt.cond, 1, st))

\* st1: the state the condition block left
WhileTest(ex, stmt, st1) ==
    IF Failed(st1) THEN st1
    ELSE IF Depth(st1) < 1 THEN Underflow(st1)
    ELSE IF ~ to_bool(Peek(st1, 0)) THEN [st1 EXCEPT !.stack = Drop(st1, 1)]
    ELSE WhileAgain(ex, stmt,
                    execute_block(ex, stmt.body, 1, [st1 EXCEPT !.stack = Drop(st1, 1)]))

\* st3: the state the body left
WhileAgain(ex, stmt, st3) ==
    IF Failed(st3) THEN st3
    ELSE IF st3.instructions_executed >= ex.config.max_instructions
         THEN [st3 EXCEPT !.status = ErrorStatus("Instruction limit in loop")]
         ELSE WhileLoop(ex, stmt, st3)

FirstMatch(cases, val) ==
    LET hits == { j \in 1..Len(cases) : cases[j][1] = val }
    IN  IF hits = {} THEN 0 ELSE CHOOSE j \in hits : \A h \in hits : j <= h

execute_stmt(ex, stmt, st0) ==
    LET st == [st0 EXCEPT !.instructions_executed = st0.instructions_executed + 1] IN
    CASE stmt.k = "Op" -> execute_op(ex, stmt.op, st)
      [] stmt.k = "Push" -> [st EXCEPT !.stack = Append(st.stack, stmt.v)]
      [] stmt.k = "Block" -> execute_block(ex, stmt.stmts, 1, st)
      [] stmt.k = "If" ->
            IF Depth(st) < 1 THEN Underflow(st)
            ELSE LET cond == Peek(st, 0)
                     st1 == [st EXCEPT !.stack = Drop(st, 1)]
                 IN  IF to_bool(cond) THEN execute_block(ex, stmt.then_branch, 1, st1)
                     ELSE IF stmt.has_else THEN execute_block(ex, stmt.else_branch, 1, st1)
                     ELSE st1
      [] stmt.k = "While" -> WhileLoop(ex, stmt, st)
      [] stmt.k = "Call" -> Raise(st, "Procedure call not inlined - ensure program is preprocessed")
      [] stmt.k = "TemporalScope" ->
            ScopeExit(stmt, st.present, execute_block(ex, stmt.body, 1, st))
      [] stmt.k = "Match" ->
            IF Depth(st) < 1 THEN Underflow(st)
            ELSE LET val == Peek(st, 0).val
                     st1 == [st EXCEPT !.stack = Drop(st, 1)]
                     j == FirstMatch(stmt.cases, val)
                 IN  IF j # 0 THEN MatchBody(ex, stmt.cases[j][2], 1, st1)
                     ELSE IF stmt.has_default THEN MatchBody(ex, stmt.default, 1, st1)
                     ELSE st1

\* an epoch that goes on reading where the last one stopped
ResetCursor_keep(cursor) == cursor

\* self.input_cursor = 0, at the start of run_epoch
ResetCursor(cursor) == 0

\* Executor::run_epoch.  The result carries, besides the EpochResult, what
\* the call leaves behind in the Executor (input_cursor) and on stdin, and
\* whether it panicked instead of returning.
\* the EpochResult built from the final state
EpochResult(st) ==
    [present |-> st.present, output |-> st.output, status |-> st.status,
     instructions_executed |-> st.instructions_executed,
     input_cursor |-> st.input_cursor, stdin |-> st.stdin,
     panicked |-> st.panicked, panic_message |-> IF st.panicked THEN st.err ELSE ""]

\* `if state.status == EpochStatus::Running { state.status = Finished }`
FinishIfRunning(st) ==
    EpochResult(IF st.status.tag = "Running" /\ ~ st.panicked
                THEN [st EXCEPT !.status = Finished] ELSE st)

\* `if let Err(e) = ... { state.status = EpochStatus::Error(e) }`
ErrorIfErr(st) ==
    FinishIfRunning(IF st.err # "" /\ ~ st.panicked
                    THEN [st EXCEPT !.status = ErrorStatus(st.err)] ELSE st)

run_epoch(ex, program, anamnesis, stdin) ==
    ErrorIfErr(execute_block(ex, program.body, 1,
                             VmStateNew(anamnesis, ResetCursor(ex.input_cursor), stdin)))

(***************************************************************************)
(* Fixed-point driver (timeloop.rs): results and diagnosis                 *)
(***************************************************************************)
NoDiagnosis == [kind |-> "None", cells |-> {}, explanation |-> << >>, cycle |-> << >>]

NegativeLoop(addr, v1, v2) ==
    [kind |-> "NegativeLoop", cells |-> {addr}, explanation |-> << addr, v1, v2 >>,
     cycle |-> << >>]

OscillationDiagnosis(cycle) ==
    [kind |-> "Oscillation", cells |-> {}, explanation |-> << >>, cycle |-> cycle]

NoStatus ==
    [kind |-> "None", memory |-> MemoryNew, output |-> << >>, epochs |-> 0,
     message |-> "", epoch |-> 0, period |-> 0, oscillating_cells |-> {},
     diagnosis |-> NoDiagnosis, diverging_cells |-> {}, direction |-> "",
     max_epochs |-> 0]

Consistent(memory, output, epochs) ==
    [NoStatus EXCEPT !.kind = "Consistent", !.memory = memory, !.output = output,
                     !.epochs = epochs]

Paradox(message, epoch) ==
    [NoStatus EXCEPT !.kind = "Paradox", !.message = message, !.epoch = epoch]

Oscillation(period, cells, diagnosis) ==
    [NoStatus EXCEPT !.kind = "Oscillation", !.period = period,
                     !.oscillating_cells = cells, !.diagnosis = diagnosis]

Divergence(cells, direction) ==
    [NoStatus EXCEPT !.kind = "Divergence", !.diverging_cells = cells,
                     !.direction = direction]

Timeout(max_epochs) == [NoStatus EXCEPT !.kind = "Timeout", !.max_epochs = max_epochs]

Error(message, epoch) ==
    [NoStatus EXCEPT !.kind = "Error", !.message = message, !.epoch = epoch]

\* the run did not return: a panic unwound through TimeLoop::run
Panicked(message, epoch) ==
    [NoStatus EXCEPT !.kind = "Panic", !.message = message, !.epoch = epoch]

SEED_CELLS == 16

RECURSIVE SeedFrom(_, _, _)
SeedFrom(mem, seed, i) ==
    IF i >= SEED_CELLS THEN mem
    ELSE SeedFrom(MemWrite(mem, i, Value(wrapping_mul(seed, U64(i + 1)))), seed, i + 1)

\* the seed left unused: the all-zero memory whatever the seed
create_initial_anamnesis_unseeded(seed) == MemoryNew

create_initial_anamnesis(seed) ==
    IF seed # ZERO64 THEN SeedFrom(MemoryNew, seed, 0) ELSE MemoryNew

SCAN_CELLS == 256

\* the addresses below SCAN_CELLS that are held by some state of states;
\* every other address below SCAN_CELLS reads 0 in all of them
ScanAddrs(states) ==
    { a \in UNION { DOMAIN states[j].cells : j \in 1..Len(states) } : a < SCAN_CELLS }

\* the Vec<Address> it returns lists these addresses in increasing order
find_oscillating_cells(states) ==
    IF states = << >> THEN {}
    ELSE { addr \in ScanAddrs(states) :
             \E j \in 2..Len(states) :
                 MemRead(states[j], addr).val # MemRead(states[1], addr).val }

create_oscillation_diagnosis(states) ==
    LET diffs == IF Len(states) = 2 THEN MemDiff(states[1], states[2]) ELSE {}
        addr == CHOOSE a \in diffs : TRUE
        v1 == MemRead(states[1], addr).val
        v2 == MemRead(states[2], addr).val
    IN  IF Len(states) = 2 /\ Cardinality(diffs) = 1
           /\ (v1 = bit_not(v2) \/ (v1 = ZERO64 /\ v2 # ZERO64) \/ (v1 # ZERO64 /\ v2 = ZERO64))
        THEN NegativeLoop(addr, v1, v2)
        ELSE OscillationDiagnosis([j \in 1..Len(states) |-> non_zero_cells(states[j])])

StrictlyIncreasing(trajectory, addr) ==
    \A j \in 1..(Len(trajectory) - 1) :
        u64_lt(MemRead(trajectory[j], addr).val, MemRead(trajectory[j + 1], addr).val)

StrictlyDecreasing(trajectory, addr) ==
    \A j \in 1..(Len(trajectory) - 1) :
        u64_lt(MemRead(trajectory[j + 1], addr).val, MemRead(trajectory[j], addr).val)

DIVERGENCE_MIN_TRAJECTORY == 5

\* None is NoStatus; direction is the one assigned last, at the highest
\* diverging address
detect_divergence(trajectory) ==
    IF Len(trajectory) < DIVERGENCE_MIN_TRAJECTORY THEN NoStatus
    ELSE LET diverging == { a \in ScanAddrs(trajectory) :
                              StrictlyIncreasing(trajectory, a) \/ StrictlyDecreasing(trajectory, a) }
             last == CHOOSE a \in diverging : \A b \in diverging : b <= a
         IN  IF diverging = {} THEN NoStatus
             ELSE Divergence(diverging,
                             IF StrictlyIncreasing(trajectory, last) THEN "Increasing"
                                                                     ELSE "Decreasing")

(***************************************************************************)
(* Programs and configurations the driver is run on                        *)
(***************************************************************************)
\* the nonzero v with hash_mix(1, v) = 0: v * HASH_K1 + 1 = 0 (mod 2^64)
V_HASH0 == << 67, 143, 246, 135, 194, 255, 191, 223 >>

Prog(body) == [procedures |-> << >>, body |-> body]

WriteCell(n, addr) == << Push(n), Push(addr), Op("Prophecy") >>

Programs == <<
    \* 1: pure arithmetic
    Prog(<< Push(10), Push(20), Op("Add"), Op("Output") >>),
    \* 2: self-fulfilling prophecy
    Prog(<< Push(0), Op("Oracle"), Push(0), Op("Prophecy") >>),
    \* 3: grandfather paradox
    Prog(<< Push(0), Op("Oracle"), Op("Not"), Push(0), Op("Prophecy") >>),
    \* 4: divergence
    Prog(<< Push(0), Op("Oracle"), Push(1), Op("Add"), Push(0), Op("Prophecy") >>),
    \* 5: witness pattern
    Prog(<< Push(0), Op("Oracle"), Op("Dup"), Push(3), Op("Eq"),
            If(<< Op("Dup"), Push(0), Op("Prophecy") >>,
               << Op("Pop"), Push(3), Push(0), Op("Prophecy") >>) >>),
    \* 6: explicit paradox
    Prog(<< Op("Paradox") >>),
    \* 7: the grandfather paradox inside a Match case
    Prog(<< Push(0),
            MatchNoDefault(<< << ZERO64,
               << Push(0), Op("Oracle"), Op("Not"), Push(0), Op("Prophecy") >> >> >>) >>),
    \* 8: cell 1 is V_HASH0 once it has been 0, and keeps its value otherwise
    Prog(<< Push(1), Op("Oracle"), Op("Dup"), Push(0), Op("Eq"),
            If(<< Op("Pop"), PushV(V_HASH0), Push(1), Op("Prophecy") >>,
               << Push(1), Op("Prophecy") >>) >>),
    \* 9: stack underflow
    Prog(<< Op("Pop") >>),
    \* 10: Pick out of range
    Prog(<< Push(7), Push(5), Op("Pick") >>),
    \* 11: a call that was not inlined
    Prog(<< Call("foo") >>),
    \* 12: stack underflow in the second epoch
    Prog(<< Push(0), Op("Oracle"), If(<< Op("Pop") >>, WriteCell(1, 0)) >>),
    \* 13: paradox in the second epoch
    Prog(<< Push(0), Op("Oracle"), If(<< Op("Paradox") >>, WriteCell(1, 0)) >>),
    \* 14: cell 0 alternates between 1 and 2
    Prog(<< Push(0), Op("Oracle"), Push(1), Op("Eq"),
            If(WriteCell(2, 0), WriteCell(1, 0)) >>),
    \* 15: cell 0 climbs by one up to 13 and stays there
    Prog(<< Push(0), Op("Oracle"), Op("Dup"), Push(13), Op("Lt"),
            IfThen(<< Push(1), Op("Add") >>), Push(0), Op("Prophecy") >>),
    \* 16: cell 0 goes 0, 1, 2, 0
    Prog(<< Push(0), Op("Oracle"),
            MatchNoDefault(<< << ZERO64, WriteCell(1, 0) >>,
                              << U64(1), WriteCell(2, 0) >> >>) >>),
    \* 17: cells 0 and 1 both alternate
    Prog(<< Push(0), Op("Oracle"), Op("Not"), Op("Dup"), Push(0), Op("Prophecy"),
            Push(1), Op("Prophecy") >>),
    \* 18: a loop that never ends
    Prog(<< While(<< Push(1) >>, << Op("Nop") >>) >>),
    \* 19: writes what it reads from the input
    Prog(<< Push(0), Op("Oracle"), Op("Pop"), Op("Input"), Op("Dup"), Op("Output"),
            Push(0), Op("Prophecy") >>),
    \* 20: Index past the last address
    Prog(<< Push(65535), Push(1), Op("Index"), Push(0), Op("Prophecy") >>),
    \* 21: writes a constant, reads nothing
    Prog(WriteCell(5, 0) \o << Push(5), Op("Output") >>),
    \* 22: cells 0 and 300 both alternate
    Prog(<< Push(0), Op("Oracle"), Op("Not"), Op("Dup"), Push(0), Op("Prophecy"),
            Push(300), Op("Prophecy") >>),
    \* 23: cell 0 climbs by one and cell 5 falls by one
    Prog(<< Push(0), Op("Oracle"), Push(1), Op("Add"), Push(0), Op("Prophecy"),
            Push(5), Op("Oracle"), Push(1), Op("Sub"), Push(5), Op("Prophecy") >>)
>>

RECURSIVE UsesOp(_, _)
UsesOp(stmts, ops) ==
    \E i \in 1..Len(stmts) :
        LET stmt == stmts[i] IN
        CASE stmt.k = "Op" -> stmt.op \in ops
          [] stmt.k = "If" -> UsesOp(stmt.then_branch, ops) \/ UsesOp(stmt.else_branch, ops)
          [] stmt.k = "While" -> UsesOp(stmt.cond, ops) \/ UsesOp(stmt.body, ops)
          [] stmt.k = "Block" -> UsesOp(stmt.stmts, ops)
          [] stmt.k = "TemporalScope" -> UsesOp(stmt.body, ops)
          [] stmt.k = "Match" ->
                (\E j \in 1..Len(stmt.cases) : UsesOp(stmt.cases[j][2], ops))
                \/ UsesOp(stmt.default, ops)
          [] OTHER -> FALSE

\* ExecutorConfig.max_instructions of the executors of the model
MaxInstructions == 24

\* the largest TimeLoopConfig.max_epochs of the model
MaxEpochs == 16

\* epochs of a Pure-mode run that the model follows
MaxPureEpochs == 16

MaxEpochsChoices == {0, 1, 3, MaxEpochs}

Seeds == {ZERO64, U64(3)}

\* the seeds a program is run with: 2^64 - 1, whose multiples wrap, is given
\* to the programs that end within two epochs
SeedChoices(p) == IF p \in {2, 7, 21} THEN Seeds \cup {MAX64} ELSE Seeds

Modes == {"Standard", "Diagnostic", "Pure"}

\* what stdin holds when a run starts; only a program with Input reads it
StdinChoices(p) ==
    IF UsesOp(Programs[p].body, {"Input"}) THEN {<< >>, << U64(5) >>, << U64(5), U64(5) >>}
    ELSE {<< >>}

\* overflow checks of the build; only u16 address sums can overflow
BuildChoices(p) ==
    IF UsesOp(Programs[p].body, {"Pack", "Unpack", "Index", "Store"}) THEN BOOLEAN
    ELSE {FALSE}

(***************************************************************************)
(* The driver as a state machine: TimeLoop::run, one step per pass of the  *)
(* loop of run_standard, run_diagnostic or run_pure                        *)
(***************************************************************************)
VARIABLES
    program,        \* index in Programs of the program given to run
    config,         \* TimeLoopConfig
    executor,       \* TimeLoop.executor: config, input_cursor, build profile
    stdin,          \* the lines not yet read from standard input
    stdin0,         \* standard input as it was when the run started
    pc,             \* "idle", "standard", "diagnostic", "pure", "done", "exec"
    epoch,          \* the loop variable
    anamnesis,      \* the local anamnesis
    seen_states,    \* the local seen_states: state_hash -> epoch
    trajectory,     \* the local trajectory (Diagnostic)
    outcome,        \* the ConvergenceStatus returned, NoStatus before
    run_no,         \* 1 for the first call of run on this TimeLoop, 2 for the second
    first_outcome,  \* the ConvergenceStatus returned by the first call
    trivial,        \* the shortcut of run_trivial was taken by this call
    history         \* the epochs executed so far by the loop: anamnesis and result

vars == << program, config, executor, stdin, stdin0, pc, epoch, anamnesis,
           seen_states, trajectory, outcome, run_no, first_outcome, trivial, history >>

TheProgram == Programs[program]

PARADOX_MESSAGE == "Explicit PARADOX instruction"

TRIVIAL_PARADOX_MESSAGE == "Explicit PARADOX in trivial program"

PURE_EPOCH_CAP == 1000000

\* ExecutorConfig::default() with immediate_output = verbose: no input.
TimeLoopNew(build) ==
    [config |-> [max_instructions |-> MaxInstructions, input |-> << >>],
     input_cursor |-> 0, overflow_checks |-> build]

Init ==
    /\ program \in 1..Len(Programs)
    /\ config \in [max_epochs : MaxEpochsChoices, mode : Modes, seed : SeedChoices(program)]
    /\ \E b \in BuildChoices(program) : executor = TimeLoopNew(b)
    /\ stdin \in StdinChoices(program)
    /\ stdin0 = stdin
    /\ pc = "idle"
    /\ epoch = 0
    /\ anamnesis = MemoryNew
    /\ seen_states = << >>
    /\ trajectory = << >>
    /\ outcome = NoStatus
    /\ run_no = 1
    /\ first_outcome = NoStatus
    /\ trivial = FALSE
    /\ history = << >>

\* what run_epoch leaves in the Executor
After(ex, r) == [ex EXCEPT !.input_cursor = r.input_cursor]

\* the match on result.status of the three loops; NoStatus: go on iterating.
\* n is the 1-based number of the epoch.
\* an outcome that takes every Finished epoch for a fixed point
EpochOutcome_unchecked(r, anam, n) ==
    CASE r.panicked -> Panicked(r.panic_message, n)
      [] r.status.tag = "Finished" -> Consistent(r.present, r.output, n)
      [] r.status.tag = "Paradox" -> Paradox(PARADOX_MESSAGE, n)
      [] r.status.tag = "Error" -> Error(r.status.msg, n)
      [] OTHER -> NoStatus

EpochOutcome(r, anam, n) ==
    CASE r.panicked -> Panicked(r.panic_message, n)
      [] r.status.tag = "Finished" ->
            IF values_equal(r.present, anam) THEN Consistent(r.present, r.output, n)
            ELSE NoStatus
      [] r.status.tag = "Paradox" -> Paradox(PARADOX_MESSAGE, n)
      [] r.status.tag = "Error" -> Error(r.status.msg, n)
      [] OTHER -> NoStatus

run_trivial(r) ==
    CASE r.panicked -> Panicked(r.panic_message, 1)
      [] r.status.tag = "Finished" -> Consistent(r.present, r.output, 1)
      [] r.status.tag = "Paradox" -> Paradox(TRIVIAL_PARADOX_MESSAGE, 1)
      [] r.status.tag = "Error" -> Error(r.status.msg, 1)
      [] OTHER -> Panicked("unreachable", 1)

\* one call of run_epoch: its anamnesis, standard input before it, and result
Entry(anam, in, r) == [anamnesis |-> anam, stdin |-> in, result |-> r]

\* the anamnesis run_trivial gives to its epoch
TrivialAnamnesis == MemoryNew

\* a seen_states that outlives the call of run
NewSeenStates_keep(old) == old

\* the local seen_states at the start of run_standard / run_diagnostic
NewSeenStates(old) == << >>

\* TimeLoop::run on a trivially consistent program
TrivialReturn(r) ==
    /\ outcome' = run_trivial(r)
    /\ executor' = After(executor, r)
    /\ stdin' = r.stdin
    /\ history' = << Entry(TrivialAnamnesis, stdin, r) >>

RunTrivial ==
    /\ pc = "idle"
    /\ is_trivially_consistent(TheProgram)
    /\ TrivialReturn(run_epoch(executor, TheProgram, TrivialAnamnesis, stdin))
    /\ pc' = "done"
    /\ trivial' = TRUE
    /\ epoch' = 0
    /\ UNCHANGED << program, config, stdin0, anamnesis, seen_states, trajectory,
                    run_no, first_outcome >>

\* TimeLoop::run dispatching on the mode, up to the first pass of the loop
RunLoop ==
    /\ pc = "idle"
    /\ ~ is_trivially_consistent(TheProgram)
    /\ pc' = CASE config.mode = "Standard" -> "standard"
               [] config.mode = "Diagnostic" -> "diagnostic"
               [] OTHER -> "pure"
    /\ anamnesis' = create_initial_anamnesis(config.seed)
    /\ seen_states' = NewSeenStates(seen_states)
    /\ trajectory' = << >>
    /\ epoch' = 0
    /\ history' = << >>
    /\ trivial' = FALSE
    /\ UNCHANGED << program, config, executor, stdin, stdin0, outcome, run_no,
                    first_outcome >>

\* the loop of diagnose_oscillation: period + 1 states, each the present of
\* the one before; the status of these epochs is not looked at
RECURSIVE CycleStates(_, _, _, _, _)
RECURSIVE CycleNext(_, _, _, _, _, _)
CycleStates(ex, current, n, in, states) ==
    IF n = 0 THEN [states |-> states, executor |-> ex, stdin |-> in, panic_message |-> ""]
    ELSE CycleNext(ex, current, n, in, states, run_epoch(ex, TheProgram, current, in))

\* `current = result.present`, r being the result
CycleNext(ex, current, n, in, states, r) ==
    IF r.panicked
    THEN [states |-> states, executor |-> ex, stdin |-> in,
          panic_message |-> r.panic_message]
    ELSE CycleStates(After(ex, r), r.present, n - 1, r.stdin, Append(states, current))

\* the number of states diagnose_oscillation collects for a period
StatesCollected(period) == period + 1

\* the status built from the states collected, c
OscillationOf(period, c) ==
    [status |-> IF c.panic_message # "" THEN Panicked(c.panic_message, 0)
                ELSE Oscillation(period, find_oscillating_cells(c.states),
                                 create_oscillation_diagnosis(c.states)),
     executor |-> c.executor, stdin |-> c.stdin]

diagnose_oscillation(ex, anam, period, in) ==
    OscillationOf(period, CycleStates(ex, anam, StatesCollected(period), in, << >>))

Insert(seen, h, e) == (h :> e) @@ seen

\* a loop over 0..=max_epochs
LoopEnds_inclusive(e, max_epochs) == e > max_epochs

\* the bound of `for epoch in 0..self.config.max_epochs`
LoopEnds(e, max_epochs) == e >= max_epochs

\* `return self.diagnose_oscillation(..)`, d being what it returns and leaves
ReturnOscillation(d) ==
    /\ outcome' = d.status
    /\ executor' = d.executor
    /\ stdin' = d.stdin
    /\ pc' = "done"

\* the rest of a pass of the loop once its epoch has returned r: o is what
\* the match on r.status returns, NoStatus when the loop goes on
EpochReturned(r, o) ==
    /\ executor' = After(executor, r)
    /\ stdin' = r.stdin
    /\ history' = Append(history, Entry(anamnesis, stdin, r))
    /\ outcome' = o
    /\ IF o.kind # "None"
       THEN pc' = "done" /\ UNCHANGED << epoch, anamnesis >>
       ELSE pc' = pc /\ epoch' = epoch + 1 /\ anamnesis' = r.present

LoopEpoch(r) == EpochReturned(r, EpochOutcome(r, anamnesis, epoch + 1))

\* one pass of the loop of run_standard, or its end
StandardEpoch ==
    /\ pc = "standard"
    /\ LET h == state_hash(anamnesis) IN
       IF LoopEnds(epoch, config.max_epochs)
       THEN /\ outcome' = Timeout(config.max_epochs)
            /\ pc' = "done"
            /\ UNCHANGED << executor, stdin, epoch, anamnesis, seen_states, history >>
       ELSE IF h \in DOMAIN seen_states
       THEN /\ ReturnOscillation(diagnose_oscillation(executor, anamnesis,
                                                       epoch - seen_states[h], stdin))
            /\ UNCHANGED << epoch, anamnesis, seen_states, history >>
       ELSE /\ seen_states' = Insert(seen_states, h, epoch)
            /\ LoopEpoch(run_epoch(executor, TheProgram, anamnesis, stdin))
    /\ UNCHANGED << program, config, stdin0, trajectory, run_no, first_outcome, trivial >>

DIVERGENCE_WARMUP == 10

\* one pass of the loop of run_diagnostic, or its end
DiagnosticEpoch ==
    /\ pc = "diagnostic"
    /\ LET h == state_hash(anamnesis)
           traj == Append(trajectory, anamnesis)
           div == IF epoch > DIVERGENCE_WARMUP THEN detect_divergence(traj) ELSE NoStatus
       IN
       IF LoopEnds(epoch, config.max_epochs)
       THEN /\ outcome' = Timeout(config.max_epochs)
            /\ pc' = "done"
            /\ UNCHANGED << executor, stdin, epoch, anamnesis, seen_states, trajectory, history >>
       ELSE IF h \in DOMAIN seen_states
       THEN LET states == SubSeq(trajectory, seen_states[h] + 1, Len(trajectory)) IN
            /\ outcome' = Oscillation(epoch - seen_states[h], find_oscillating_cells(states),
                                      create_oscillation_diagnosis(states))
            /\ pc' = "done"
            /\ UNCHANGED << executor, stdin, epoch, anamnesis, seen_states, trajectory, history >>
       ELSE IF div.kind # "None"
       THEN /\ outcome' = div
            /\ pc' = "done"
            /\ seen_states' = Insert(seen_states, h, epoch)
            /\ trajectory' = traj
            /\ UNCHANGED << executor, stdin, epoch, anamnesis, history >>
       ELSE /\ seen_states' = Insert(seen_states, h, epoch)
            /\ trajectory' = traj
            /\ LoopEpoch(run_epoch(executor, TheProgram, anamnesis, stdin))
    /\ UNCHANGED << program, config, stdin0, run_no, first_outcome, trivial >>

\* one pass of the loop of run_pure; the model follows MaxPureEpochs of them
PureReturned(r, o) ==
    /\ executor' = After(executor, r)
    /\ stdin' = r.stdin
    /\ history' = Append(history, Entry(anamnesis, stdin, r))
    /\ epoch' = epoch + 1
    /\ IF o.kind # "None"
       THEN outcome' = o /\ pc' = "done" /\ UNCHANGED anamnesis
       ELSE IF epoch + 1 > PURE_EPOCH_CAP
       THEN outcome' = Timeout(epoch + 1) /\ pc' = "done" /\ anamnesis' = r.present
       ELSE outcome' = o /\ pc' = pc /\ anamnesis' = r.present

PureLoopEpoch(r) == PureReturned(r, EpochOutcome(r, anamnesis, epoch + 1))

\* the passes of the loop of run_pure the model follows one by one: the first
\* MaxPureEpochs and the last MaxPureEpochs before the safety check
Followed(n) == n < MaxPureEpochs \/ n + MaxPureEpochs > PURE_EPOCH_CAP

PureEpoch ==
    /\ pc = "pure"
    /\ Followed(epoch)
    /\ PureLoopEpoch(run_epoch(executor, TheProgram, anamnesis, stdin))
    /\ UNCHANGED << program, config, stdin0, seen_states, trajectory, run_no,
                    first_outcome, trivial >>

\* the longest cycle of passes the model recognises
MaxPeriod == 3

\* the loop of run_pure after p more passes from the executor ex, the
\* anamnesis anam and the standard input sd: ok is FALSE if one of them
\* returns from run_pure
RECURSIVE PurePasses(_, _, _, _)
PurePassed(ex, anam, r, p) ==
    IF EpochOutcome(r, anam, 1).kind # "None"
    THEN [ok |-> FALSE, executor |-> ex, anamnesis |-> anam, stdin |-> r.stdin]
    ELSE PurePasses(After(ex, r), r.present, r.stdin, p - 1)

PurePasses(ex, anam, sd, p) ==
    IF p = 0 THEN [ok |-> TRUE, executor |-> ex, anamnesis |-> anam, stdin |-> sd]
    ELSE PurePassed(ex, anam, run_epoch(ex, TheProgram, anam, sd), p)

\* p passes from here bring the loop of run_pure back to where it is now
PureCycles(p) ==
    PurePasses(executor, anamnesis, stdin, p) =
        [ok |-> TRUE, executor |-> executor, anamnesis |-> anamnesis, stdin |-> stdin]

\* the loop of run_pure going round a cycle of p passes: every round leaves
\* the executor, the anamnesis and the input where they were and adds p to
\* epoch; the rounds are taken at once, up to the last passes before the
\* safety check, which the model follows one by one again
PureRounds ==
    /\ pc = "pure"
    /\ epoch < MaxPureEpochs
    /\ \E p \in 1..MaxPeriod :
          /\ PureCycles(p)
          /\ epoch' = epoch + ((PURE_EPOCH_CAP - 2 - epoch) \div p) * p
    /\ UNCHANGED << program, config, executor, stdin, stdin0, pc, anamnesis, seen_states,
                    trajectory, outcome, run_no, first_outcome, trivial, history >>

\* the caller runs the same program again on the same TimeLoop, with
\* standard input holding again what it held before the first run
RunAgain ==
    /\ pc = "done"
    /\ run_no = 1
    /\ run_no' = 2
    /\ first_outcome' = outcome
    /\ outcome' = NoStatus
    /\ stdin' = stdin0
    /\ pc' = "idle"
    /\ UNCHANGED << program, config, executor, stdin0, epoch, anamnesis, seen_states,
                    trajectory, trivial, history >>

Next ==
    \/ RunTrivial
    \/ RunLoop
    \/ StandardEpoch
    \/ DiagnosticEpoch
    \/ PureEpoch
    \/ RunAgain

Spec == Init /\ [][Next]_vars

(***************************************************************************)
(* TimeLoop::run in Pure mode, followed up to the safety check of run_pure  *)
(***************************************************************************)
\* a run in Standard mode, then a run of the same program with the same
\* seed, budget and input on a new TimeLoop in Diagnostic mode
ModesInit == Init /\ config.mode = "Standard"

\* TimeLoop::new(config) with mode Diagnostic, after the Standard run
OtherMode ==
    /\ pc = "done"
    /\ run_no = 1
    /\ run_no' = 2
    /\ first_outcome' = outcome
    /\ outcome' = NoStatus
    /\ config' = [config EXCEPT !.mode = "Diagnostic"]
    /\ executor' = TimeLoopNew(executor.overflow_checks)
    /\ stdin' = stdin0
    /\ pc' = "idle"
    /\ UNCHANGED << program, stdin0, epoch, anamnesis, seen_states, trajectory, trivial,
                    history >>

ModesNext == RunTrivial \/ RunLoop \/ StandardEpoch \/ DiagnosticEpoch \/ OtherMode

SpecModes == ModesInit /\ [][ModesNext]_vars

PureInit == Init /\ config.mode = "Pure"

PureNext ==
    \/ RunTrivial
    \/ RunLoop
    \/ PureEpoch
    \/ PureRounds

SpecPure == PureInit /\ [][PureNext]_vars

(***************************************************************************)
(* An Executor used directly: run_epoch called again and again on the same *)
(* Executor, with a configured input buffer                                *)
(***************************************************************************)
\* run_epoch calls the model makes on one Executor
MaxCalls == 3

InputChoices == {<< >>, << U64(7), U64(9) >>}

ProbeAnamneses ==
    {MemoryNew, MemWrite(MemoryNew, 0, Lit(1)), create_initial_anamnesis(U64(3))}

ExecInit ==
    /\ program \in 1..Len(Programs)
    /\ \E b \in BuildChoices(program), input \in InputChoices :
          executor = [config |-> [max_instructions |-> MaxInstructions, input |-> input],
                      input_cursor |-> 0, overflow_checks |-> b]
    /\ stdin \in StdinChoices(program)
    /\ stdin0 = stdin
    /\ pc = "exec"
    /\ config = [max_epochs |-> 0, mode |-> "Standard", seed |-> ZERO64]
    /\ epoch = 0
    /\ anamnesis = MemoryNew
    /\ seen_states = << >>
    /\ trajectory = << >>
    /\ outcome = NoStatus
    /\ run_no = 1
    /\ first_outcome = NoStatus
    /\ trivial = FALSE
    /\ history = << >>

\* Executor::run_epoch(program, anam)
ExecReturned(anam, r) ==
    /\ history' = Append(history, Entry(anam, stdin, r))
    /\ executor' = After(executor, r)
    /\ stdin' = r.stdin
    /\ anamnesis' = anam
    /\ pc' = IF r.panicked THEN "done" ELSE pc
    /\ outcome' = IF r.panicked THEN Panicked(r.panic_message, Len(history) + 1)
                  ELSE outcome

ExecRunEpoch ==
    /\ pc = "exec"
    /\ Len(history) < MaxCalls
    /\ \E anam \in ProbeAnamneses :
          ExecReturned(anam, run_epoch(executor, TheProgram, anam, stdin))
    /\ UNCHANGED << program, config, stdin0, epoch, seen_states, trajectory, run_no,
                    first_outcome, trivial >>

ExecNext == ExecRunEpoch

SpecExec == ExecInit /\ [][ExecNext]_vars

(***************************************************************************)
(* Temporal type checker (types.rs)                                        *)
(***************************************************************************)
\* TemporalType::join
join(a, b) ==
    IF a = "Temporal" \/ b = "Temporal" THEN "Temporal"
    ELSE IF a = "Pure" /\ b = "Pure" THEN "Pure"
    ELSE IF a = "Unknown" THEN b ELSE a

\* cell_types is held as a function on the addresses inserted
TypeCheckerNew ==
    [stack |-> << >>, cell_types |-> << >>, errors |-> << >>, warnings |-> << >>,
     stmt_index |-> 0, in_temporal_branch |-> FALSE]

\* the type the (k+1)-th pop_type in a row returns
TTop(tc, k) == IF Len(tc.stack) > k THEN tc.stack[Len(tc.stack) - k] ELSE "Unknown"

\* the abstract stack after n calls of pop_type
TDrop(tc, n) == SubSeq(tc.stack, 1, IF Len(tc.stack) > n THEN Len(tc.stack) - n ELSE 0)

\* n calls of pop_type, then a push of ty
TPush(tc, n, ty) == [tc EXCEPT !.stack = Append(TDrop(tc, n), ty)]

TWarn(tc, what) ==
    [tc EXCEPT !.warnings = Append(tc.warnings, [what |-> what, stmt |-> tc.stmt_index])]

TWarnIf(tc, cond, what) == IF cond THEN TWarn(tc, what) ELSE tc

\* a join of the types of corresponding slots, a missing slot being Unknown
merge_stacks(a, b) ==
    [i \in 1..(IF Len(a) > Len(b) THEN Len(a) ELSE Len(b)) |->
        join(IF i <= Len(a) THEN a[i] ELSE "Unknown", IF i <= Len(b) THEN b[i] ELSE "Unknown")]

check_op(tc, op) ==
    LET n == Len(tc.stack) IN
    CASE op = "Oracle" ->
            TPush(TWarnIf(tc, TTop(tc, 0) = "Temporal", "ORACLE address is Temporal"),
                  1, "Temporal")
      [] op = "Prophecy" ->
            [TWarnIf(tc, TTop(tc, 0) = "Temporal", "PROPHECY address is Temporal")
                EXCEPT !.stack = TDrop(tc, 2),
                       !.cell_types = (0 :> TTop(tc, 1)) @@ tc.cell_types]
      [] op = "PresentRead" ->
            TPush(tc, 1, IF tc.in_temporal_branch THEN "Temporal" ELSE TTop(tc, 0))
      [] op = "Pop" -> [tc EXCEPT !.stack = TDrop(tc, 1)]
      [] op = "Dup" -> TPush(tc, 0, TTop(tc, 0))
      [] op = "Swap" ->
            IF n >= 2 THEN [tc EXCEPT !.stack[n - 1] = tc.stack[n], !.stack[n] = tc.stack[n - 1]]
            ELSE tc
      [] op = "Over" -> IF n >= 2 THEN TPush(tc, 0, tc.stack[n - 1]) ELSE tc
      [] op = "Rot" ->
            IF n >= 3
            THEN [tc EXCEPT !.stack[n - 2] = tc.stack[n - 1], !.stack[n - 1] = tc.stack[n],
                            !.stack[n] = tc.stack[n - 2]]
            ELSE tc
      [] op = "Depth" -> TPush(tc, 0, "Pure")
      [] op = "Pick" -> TPush(tc, 1, "Unknown")
      [] op \in {"Nop", "Neg", "Not", "Halt", "Paradox"} -> tc
      [] op \in {"Add", "Sub", "Mul", "Div", "Mod", "And", "Or", "Xor", "Shl", "Shr",
                 "Eq", "Neq", "Lt", "Gt", "Lte", "Gte"} ->
            TPush(tc, 2, join(TTop(tc, 1), TTop(tc, 0)))
      [] op = "Input" -> TPush(tc, 0, "Pure")
      [] op = "Output" -> [tc EXCEPT !.stack = TDrop(tc, 1)]
      [] op = "Pack" -> [tc EXCEPT !.stack = TDrop(tc, 2)]
      [] op = "Unpack" -> TPush(tc, 2, "Unknown")
      [] op = "Index" -> TPush(tc, 2, "Temporal")
      [] op = "Store" -> [tc EXCEPT !.stack = TDrop(tc, 3)]

RECURSIVE check_statements(_, _, _)
RECURSIVE check_stmt(_, _)
RECURSIVE check_body(_, _, _)
RECURSIVE check_cases(_, _, _)

\* self.stmt_index += 1
StmtChecked(tc) == [tc EXCEPT !.stmt_index = tc.stmt_index + 1]

\* the loop of check_statements from the i-th statement on
check_statements(tc, stmts, i) ==
    IF i > Len(stmts) THEN tc
    ELSE check_statements(StmtChecked(check_stmt(tc, stmts[i])), stmts, i + 1)

\* `for stmt in body { self.check_stmt(stmt); }` of Match
check_body(tc, body, i) ==
    IF i > Len(body) THEN tc ELSE check_body(check_stmt(tc, body[i]), body, i + 1)

check_cases(tc, cases, j) ==
    IF j > Len(cases) THEN tc ELSE check_cases(check_body(tc, cases[j][2], 1), cases, j + 1)

\* the end of the If arm: tc2 is the checker after the else branch
IfMerged(then_stack, tc2, was_temporal) ==
    [tc2 EXCEPT !.stack = merge_stacks(then_stack, tc2.stack),
                !.in_temporal_branch = was_temporal]

\* tc1: the checker after the then branch
IfElse(tc1, stmt, stack_before, was_temporal) ==
    IfMerged(tc1.stack,
             IF stmt.has_else
             THEN check_statements([tc1 EXCEPT !.stack = stack_before], stmt.else_branch, 1)
             ELSE [tc1 EXCEPT !.stack = stack_before],
             was_temporal)

\* self.stack = stack_before
WhileDone(tc3, stack_before) == [tc3 EXCEPT !.stack = stack_before]

\* tc1: the checker after the condition block of a While
WhileBody(tc1, stmt, stack_before) ==
    LET temporal == TTop(tc1, 0) = "Temporal"
        tc2 == [TWarnIf(tc1, temporal, "Loop condition is Temporal")
                   EXCEPT !.stack = TDrop(tc1, 1),
                          !.in_temporal_branch = temporal \/ tc1.in_temporal_branch]
    IN  WhileDone(check_statements(tc2, stmt.body, 1), stack_before)

MatchDefault(tc1, stmt) ==
    IF stmt.has_default THEN check_body(tc1, stmt.default, 1) ELSE tc1

check_stmt(tc, stmt) ==
    CASE stmt.k = "Push" -> TPush(tc, 0, IF stmt.v.prov = ProvNone THEN "Pure" ELSE "Temporal")
      [] stmt.k = "Op" -> check_op(tc, stmt.op)
      [] stmt.k = "If" ->
            IfElse(check_statements(
                       [tc EXCEPT !.stack = TDrop(tc, 1),
                                  !.in_temporal_branch =
                                      TTop(tc, 0) = "Temporal" \/ tc.in_temporal_branch],
                       stmt.then_branch, 1),
                   stmt, TDrop(tc, 1), tc.in_temporal_branch)
      [] stmt.k = "While" -> WhileBody(check_statements(tc, stmt.cond, 1), stmt, tc.stack)
      [] stmt.k = "Block" -> check_statements(tc, stmt.stmts, 1)
      [] stmt.k = "Call" -> TPush(tc, 0, "Unknown")
      [] stmt.k = "Match" ->
            MatchDefault(check_cases([tc EXCEPT !.stack = TDrop(tc, 1)], stmt.cases, 1), stmt)

\* TypeChecker::check on a new checker: the TypeCheckResult
TypeCheckResult(tc) ==
    [kind |-> "TypeCheck", is_valid |-> tc.errors = << >>, errors |-> tc.errors,
     warnings |-> tc.warnings, cell_types |-> tc.cell_types, final_stack_types |-> tc.stack]

type_check(body) == TypeCheckResult(check_statements(TypeCheckerNew, body, 1))

(***************************************************************************)
(* The interpreter on one program body: execute_block from a fresh VmState *)
(***************************************************************************)
Halt == Op("Halt")

\* body: the statements run; cut: the same statements without those that
\* follow, in their block, a statement that leaves the status non-Running
\* (body itself when there is no such statement)
Case(body, cut) == [body |-> body, cut |-> cut]

Whole(body) == Case(body, body)

AfterStop == << Push(2), Push(0), Op("Prophecy"), Push(9), Op("Output"), Op("Pop") >>

StopCases == <<
    \* 1: the tail of the program body after Halt
    Case(WriteCell(1, 0) \o << Push(4), Halt >> \o AfterStop,
         WriteCell(1, 0) \o << Push(4), Halt >>),
    \* 2: the tail of an If branch after Paradox
    Case(<< Push(4), Push(1), If(WriteCell(1, 0) \o << Op("Paradox") >> \o AfterStop, << >>) >>,
         << Push(4), Push(1), If(WriteCell(1, 0) \o << Op("Paradox") >>, << >>) >>),
    \* 3: the tail of a While body after Halt
    Case(<< Push(4), While(<< Push(1) >>, WriteCell(1, 0) \o << Halt >> \o AfterStop) >>,
         << Push(4), While(<< Push(1) >>, WriteCell(1, 0) \o << Halt >>) >>),
    \* 4: the tail of a While condition after Halt
    Case(<< Push(4), While(<< Push(1), Halt >> \o AfterStop, << >>) >>,
         << Push(4), While(<< Push(1), Halt >>, << >>) >>),
    \* 5: the tail of a Match case body after Halt
    Case(<< Push(4), Push(0),
            MatchNoDefault(<< << ZERO64, WriteCell(1, 0) \o << Halt >> \o AfterStop >> >>) >>,
         << Push(4), Push(0),
            MatchNoDefault(<< << ZERO64, WriteCell(1, 0) \o << Halt >> >> >>) >>),
    \* 6: the tail of a Match default body after Paradox
    Case(<< Push(4), Push(0), Match(<< >>, WriteCell(1, 0) \o << Op("Paradox") >> \o AfterStop) >>,
         << Push(4), Push(0), Match(<< >>, WriteCell(1, 0) \o << Op("Paradox") >>) >>),
    \* 7: the tail of a Match case body after a stack underflow
    Case(<< Push(0),
            MatchNoDefault(<< << ZERO64, WriteCell(1, 0) \o << Op("Pop") >> \o AfterStop >> >>) >>,
         << Push(0),
            MatchNoDefault(<< << ZERO64, WriteCell(1, 0) \o << Op("Pop") >> >> >>) >>),
    \* 8: what follows a Block in which Halt was executed
    Case(<< Push(4), Block(<< Halt, Push(5) >>) >> \o AfterStop,
         << Push(4), Block(<< Halt >>) >>),
    \* 9: what follows a Match in which Halt was executed
    Case(<< Push(4), Push(0), MatchNoDefault(<< << ZERO64, << Halt >> >> >>) >> \o AfterStop,
         << Push(4), Push(0), MatchNoDefault(<< << ZERO64, << Halt >> >> >>) >>)
>>

\* Bodies that write to the present and then fail; cut is the body without the
\* failing instruction.
UnwindCases == <<
    \* 10: Prophecy, Store and Pack complete, then Pop finds the stack empty
    Case(<< Push(5), Push(1), Op("Prophecy"), Push(6), Push(0), Push(2), Op("Store"),
            Push(7), Push(8), Push(3), Push(2), Op("Pack"), Op("Pop") >>,
         << Push(5), Push(1), Op("Prophecy"), Push(6), Push(0), Push(2), Op("Store"),
            Push(7), Push(8), Push(3), Push(2), Op("Pack") >>),
    \* 11: a write inside a loop, then Paradox
    Case(<< While(<< Push(1) >>, << Push(5), Push(1), Op("Prophecy"), Op("Paradox") >>) >>,
         << Push(5), Push(1), Op("Prophecy") >>),
    \* 12: Pack of three values with one value on the stack
    Case(<< Push(5), Push(1), Op("Prophecy"), Push(7), Push(0), Push(3), Op("Pack") >>,
         << Push(5), Push(1), Op("Prophecy"), Push(7), Push(0), Push(3) >>),
    \* 13: Store with no value under its two address operands
    Case(<< Push(5), Push(1), Op("Prophecy"), Push(0), Push(2), Op("Store") >>,
         << Push(5), Push(1), Op("Prophecy"), Push(0), Push(2) >>)
>>

\* Bodies that no count of statements completes: loops whose condition never
\* becomes zero, and an Unpack of 2^64 - 1 values.
ForeverCases == <<
    \* 14: an empty body
    Whole(<< While(<< Push(1) >>, << >>) >>),
    \* 15: a body that runs a Match
    Whole(<< While(<< Push(1) >>, << Push(0), Match(<< >>, << Push(1), Op("Pop") >>) >>) >>),
    \* 16: a loop that never ends in the body of another
    Whole(<< While(<< Push(1) >>, << While(<< Push(1) >>, << Push(3), Push(0), Op("Prophecy") >>) >>) >>),
    \* 17: a loop that never ends in the condition of another
    Whole(<< While(<< While(<< Push(1) >>, << >>), Push(1) >>, << >>) >>),
    \* 18: a condition that reads the anamnesis, in a Match body
    Whole(<< Push(0), Match(<< >>, << While(<< Push(0), Op("Oracle"), Op("Dup"), Op("Eq") >>,
                                             << Push(1), Op("Output") >>) >>) >>),
    \* 19: one instruction that pushes 2^64 - 1 values
    Whole(<< Push(0), PushV(MAX64), Op("Unpack") >>)
>>

\* Bodies whose results depend on the anamnesis: a value read by ORACLE
\* reaches the output, or a cell of the present, as an operand or as an
\* address.
ProvCases == <<
    \* 20: as an operand of Add
    Whole(<< Push(0), Op("Oracle"), Push(1), Op("Add"), Op("Output") >>),
    \* 21: as the address of PresentRead
    Whole(WriteCell(7, 1) \o << Push(0), Op("Oracle"), Op("PresentRead"), Op("Output") >>),
    \* 22: as the address of Oracle
    Whole(<< Push(0), Op("Oracle"), Op("Oracle"), Op("Output") >>),
    \* 23: as the index of Index
    Whole(WriteCell(7, 1) \o << Push(0), Push(0), Op("Oracle"), Op("Index"), Op("Output") >>),
    \* 24: as the address of Prophecy
    Whole(<< Push(7), Push(0), Op("Oracle"), Op("Prophecy") >>),
    \* 25: as the index of Store
    Whole(<< Push(7), Push(0), Push(0), Op("Oracle"), Op("Store") >>),
    \* 26: as the base of Unpack
    Whole(WriteCell(7, 1) \o << Push(0), Op("Oracle"), Push(1), Op("Unpack"), Op("Output") >>)
>>

\* Bodies for the type checker
TypeCases == <<
    \* 27: a cell written with an oracle value, read back by PresentRead
    Whole(<< Push(0), Op("Oracle"), Push(0), Op("Prophecy"), Push(0), Op("PresentRead") >>),
    \* 28: an oracle value written to cell 0, then a literal to cell 1
    Whole(<< Push(0), Op("Oracle"), Push(0), Op("Prophecy"), Push(5), Push(1), Op("Prophecy") >>),
    \* 29: Index in a program that reads no oracle
    Whole(<< Push(0), Push(0), Op("Index") >>),
    \* 30: literals only
    Whole(<< Push(10), Push(20), Op("Add"), Op("Dup"), Op("Output") >>),
    \* 31: an oracle value in arithmetic, on the stack and in cell 0
    Whole(<< Push(0), Op("Oracle"), Push(1), Op("Add"), Op("Dup"), Push(0), Op("Prophecy") >>),
    \* 32: literals pushed under a condition read from the oracle
    Whole(<< Push(0), Op("Oracle"), Push(0), Op("Eq"), If(<< Push(1) >>, << Push(2) >>) >>),
    \* 33: a loop body that replaces a literal by an oracle value
    Whole(<< Push(5), While(<< Op("Dup"), Push(5), Op("Eq") >>,
                            << Op("Pop"), Push(0), Op("Oracle"), Push(1), Op("Add") >>) >>)
>>

\* Bodies in which something follows the first statement that leaves the
\* status non-Running; cut runs the same count of instructions up to that
\* statement and ends there.
StickyCases == <<
    \* 34: Paradox in a While condition that leaves the stack empty
    Case(<< While(<< Op("Paradox") >>, << >>) >>, << Block(<< Op("Paradox") >>) >>),
    \* 35: Halt, then Paradox, in a Match case body
    Case(<< Push(0), MatchNoDefault(<< << ZERO64, << Halt, Op("Paradox") >> >> >>) >>,
         << Push(0), MatchNoDefault(<< << ZERO64, << Halt >> >> >>) >>),
    \* 36: Paradox, then Halt, in a Match default body
    Case(<< Push(0), Match(<< >>, << Op("Paradox"), Halt >>) >>,
         << Push(0), Match(<< >>, << Op("Paradox") >>) >>),
    \* 37: Halt, then a Pop that finds the stack empty, in a Match case body
    Case(<< Push(0), MatchNoDefault(<< << ZERO64, << Halt, Op("Pop") >> >> >>) >>,
         << Push(0), MatchNoDefault(<< << ZERO64, << Halt >> >> >>) >>),
    \* 38: Paradox as the sixth instruction, at the end of a While body
    Case(<< Op("Nop"), Op("Nop"), Op("Nop"), While(<< Push(1) >>, << Op("Paradox") >>) >>,
         << Op("Nop"), Op("Nop"), Op("Nop"), Push(1), IfThen(<< Op("Paradox") >>) >>),
    \* 39: Halt in a While condition that leaves the stack empty
    Case(<< While(<< Halt >>, << >>) >>, << Block(<< Halt >>) >>)
>>

VmPrograms == StopCases \o UnwindCases \o ForeverCases \o ProvCases \o TypeCases \o StickyCases

\* max_instructions of the executors that run the bodies
VmBudgets == {6, MaxInstructions}

\* the record of one run of a body: anamnesis and standard input given, the
\* VmState left by execute_block (with its stack) and the EpochResult
VmEntry(anam, in, st) ==
    [anamnesis |-> anam, stdin |-> in, final |-> st, result |-> ErrorIfErr(st)]

VmInit ==
    /\ program \in 1..Len(VmPrograms)
    /\ \E b \in BOOLEAN, n \in VmBudgets, input \in InputChoices :
          executor = [config |-> [max_instructions |-> n, input |-> input],
                      input_cursor |-> 0, overflow_checks |-> b]
    /\ stdin = << >>
    /\ stdin0 = stdin
    /\ pc = "vm"
    /\ config = [max_epochs |-> 0, mode |-> "Standard", seed |-> ZERO64]
    /\ epoch = 0
    /\ anamnesis = MemoryNew
    /\ seen_states = << >>
    /\ trajectory = << >>
    /\ outcome = NoStatus
    /\ run_no = 1
    /\ first_outcome = NoStatus
    /\ trivial = FALSE
    /\ history = << >>

\* one epoch on the body, with an anamnesis of the caller's choice
VmRun ==
    /\ pc = "vm"
    /\ Len(history) < MaxCalls
    /\ \E anam \in ProbeAnamneses :
          /\ history' = Append(history,
                VmEntry(anam, stdin,
                        execute_block(executor, VmPrograms[program].body, 1,
                                      VmStateNew(anam, ResetCursor(executor.input_cursor), stdin))))
          /\ anamnesis' = anam
    /\ UNCHANGED << program, config, executor, stdin, stdin0, pc, epoch, seen_states,
                    trajectory, outcome, run_no, first_outcome, trivial >>

\* type_check(&program)
VmTypeCheck ==
    /\ pc = "vm"
    /\ outcome = NoStatus
    /\ outcome' = type_check(VmPrograms[program].body)
    /\ UNCHANGED << program, config, executor, stdin, stdin0, pc, epoch, anamnesis, seen_states,
                    trajectory, run_no, first_outcome, trivial, history >>

VmNext == VmRun \/ VmTypeCheck

SpecVm == VmInit /\ [][VmNext]_vars

(***************************************************************************)
(* One Memory under a sequence of writes (core_types.rs)                   *)
(***************************************************************************)
\* Memory::recompute_hash: the XOR, in address order, of hash_mix over the
\* cells whose value is not zero
RECURSIVE XorCells(_, _, _)
XorCells(m, addrs, hash) ==
    IF addrs = {} THEN hash
    ELSE LET addr == CHOOSE a \in addrs : \A b \in addrs : a <= b
             cell == MemRead(m, addr)
         IN  XorCells(m, addrs \ {addr},
                      IF cell.val # ZERO64 THEN bit_xor(hash, hash_mix(addr, cell.val))
                                           ELSE hash)

recompute_hash(m) == XorCells(m, DOMAIN m.cells, ZERO64)

MaxWrites == 4

MemAddrs == {0, 100}

MemValues == {Lit(0), Lit(42), ValueWithProv(U64(42), ProvSingle(7)), Lit(99)}

\* a write made: its arguments and the memory it was made on
Written(addr, val, old) == [addr |-> addr, val |-> val, old |-> old]

MemInit ==
    /\ anamnesis = MemoryNew
    /\ epoch = 0
    /\ outcome = NoStatus
    /\ pc = "mem"
    /\ program = 1
    /\ executor = [config |-> [max_instructions |-> 0, input |-> << >>],
                   input_cursor |-> 0, overflow_checks |-> FALSE]
    /\ stdin = << >>
    /\ stdin0 = stdin
    /\ config = [max_epochs |-> 0, mode |-> "Standard", seed |-> ZERO64]
    /\ seen_states = << >>
    /\ trajectory = << >>
    /\ run_no = 1
    /\ first_outcome = NoStatus
    /\ trivial = FALSE
    /\ history = << >>

\* mem.write(addr, val)
MemWriteStep ==
    /\ pc = "mem"
    /\ epoch < MaxWrites
    /\ \E addr \in MemAddrs, val \in MemValues :
          /\ anamnesis' = MemWrite(anamnesis, addr, val)
          /\ history' = Append(history, Written(addr, val, anamnesis))
    /\ epoch' = epoch + 1
    /\ UNCHANGED << program, config, executor, stdin, stdin0, pc, seen_states, trajectory,
                    outcome, run_no, first_outcome, trivial >>

MemNext == MemWriteStep

SpecMem == MemInit /\ [][MemNext]_vars

(***************************************************************************)
(* The order of memory states (core_types.rs, impl Ord for Memory)         *)
(***************************************************************************)
\* a.val.cmp(&b.val)
U64Cmp(a, b) == IF u64_lt(a, b) THEN "Less" ELSE IF u64_lt(b, a) THEN "Greater" ELSE "Equal"

\* the cells compared from the highest address down
RECURSIVE CmpDown(_, _, _)
CmpDown(m1, m2, addrs) ==
    IF addrs = {} THEN "Equal"
    ELSE LET a == CHOOSE x \in addrs : \A y \in addrs : x >= y
             c == U64Cmp(MemRead(m1, a).val, MemRead(m2, a).val)
         IN  IF c = "Equal" THEN CmpDown(m1, m2, addrs \ {a}) ELSE c

MemCmp_from_top(m1, m2) == CmpDown(m1, m2, (DOMAIN m1.cells) \cup (DOMAIN m2.cells))

\* the loop of cmp over the zipped cells; cells outside both domains are
\* zero in both memories and compare Equal
RECURSIVE CmpCells(_, _, _)
CmpCells(m1, m2, addrs) ==
    IF addrs = {} THEN "Equal"
    ELSE LET a == CHOOSE x \in addrs : \A y \in addrs : x <= y
             c == U64Cmp(MemRead(m1, a).val, MemRead(m2, a).val)
         IN  IF c = "Equal" THEN CmpCells(m1, m2, addrs \ {a}) ELSE c

\* Memory::cmp
MemCmp(m1, m2) == CmpCells(m1, m2, (DOMAIN m1.cells) \cup (DOMAIN m2.cells))

CmpValues == {Lit(0), Lit(1), ValueWithProv(U64(1), ProvSingle(3)), Lit(256)}

\* memories written at cells 0 and 1, the new memory, and one written at
\* the last cell only
CmpMemories ==
    { MemWrite(MemWrite(MemoryNew, 0, a), 1, b) : a, b \in CmpValues }
        \cup {MemoryNew, MemWrite(MemoryNew, MEMORY_SIZE - 1, Lit(1))}

\* the results of comparing three memories with each other
Compared(a, b, c) ==
    [aa |-> MemCmp(a, a), ab |-> MemCmp(a, b), ba |-> MemCmp(b, a), bc |-> MemCmp(b, c),
     cb |-> MemCmp(c, b), ac |-> MemCmp(a, c), ca |-> MemCmp(c, a)]

CmpInit ==
    /\ trajectory \in CmpMemories \X CmpMemories \X CmpMemories
    /\ pc = "cmp"
    /\ history = << >>
    /\ anamnesis = MemoryNew
    /\ epoch = 0
    /\ outcome = NoStatus
    /\ program = 1
    /\ executor = [config |-> [max_instructions |-> 0, input |-> << >>],
                   input_cursor |-> 0, overflow_checks |-> FALSE]
    /\ stdin = << >>
    /\ stdin0 = stdin
    /\ config = [max_epochs |-> 0, mode |-> "Standard", seed |-> ZERO64]
    /\ seen_states = << >>
    /\ run_no = 1
    /\ first_outcome = NoStatus
    /\ trivial = FALSE

\* a.cmp(&b) for each pair of the three memories
MemCompare ==
    /\ pc = "cmp"
    /\ pc' = "compared"
    /\ history' = << Compared(trajectory[1], trajectory[2], trajectory[3]) >>
    /\ UNCHANGED << program, config, executor, stdin, stdin0, epoch, anamnesis, seen_states,
                    trajectory, outcome, run_no, first_outcome, trivial >>

CmpNext == MemCompare

SpecCmp == CmpInit /\ [][CmpNext]_vars

(***************************************************************************)
(* Arithmetic on Values, through the interpreter                           *)
(***************************************************************************)
ArithOps == << "Add", "Sub", "Mul", "Div", "Mod" >>

\* 2^63
TOP_BIT == << 0, 0, 0, 0, 0, 0, 0, 128 >>

ArithValues == {ZERO64, U64(1), U64(2), U64(7), MAX64, bit_not(U64(1)), TOP_BIT}

\* the cells of the anamnesis the two operands are read from
OperandCells == << 0, 5 >>

\* an operand is a literal of the program, or read from the anamnesis by
\* ORACLE and then marked with the address read
Operand(v, cell, from_oracle) ==
    IF from_oracle THEN << Push(cell), Op("Oracle") >> ELSE << PushV(v) >>

ArithProgram(op, a, b, oracles) ==
    Prog(Operand(a, OperandCells[1], oracles[1]) \o Operand(b, OperandCells[2], oracles[2])
            \o << Op(op), Op("Output") >>)

ArithAnamnesis(a, b) == MemWrite(MemWrite(MemoryNew, OperandCells[1], Value(a)), OperandCells[2], Value(b))

ArithInit ==
    /\ program \in 1..Len(ArithOps)
    /\ trajectory \in ArithValues \X ArithValues
    /\ seen_states \in BOOLEAN \X BOOLEAN
    /\ anamnesis = ArithAnamnesis(trajectory[1], trajectory[2])
    /\ pc = "arith"
    /\ history = << >>
    /\ executor = [config |-> [max_instructions |-> MaxInstructions, input |-> << >>],
                   input_cursor |-> 0, overflow_checks |-> TRUE]
    /\ stdin = << >>
    /\ stdin0 = stdin
    /\ config = [max_epochs |-> 0, mode |-> "Standard", seed |-> ZERO64]
    /\ epoch = 0
    /\ outcome = NoStatus
    /\ run_no = 1
    /\ first_outcome = NoStatus
    /\ trivial = FALSE

\* one epoch of `a b OP OUTPUT`
ArithRun ==
    /\ pc = "arith"
    /\ pc' = "done"
    /\ history' = << Entry(anamnesis, stdin,
                           run_epoch(executor,
                                     ArithProgram(ArithOps[program], trajectory[1],
                                                  trajectory[2], seen_states),
                                     anamnesis, stdin)) >>
    /\ UNCHANGED << program, config, executor, stdin, stdin0, epoch, anamnesis, seen_states,
                    trajectory, outcome, run_no, first_outcome, trivial >>

ArithNext == ArithRun

SpecArith == ArithInit /\ [][ArithNext]_vars

(***************************************************************************)
(* The stack and memory words run on a prepared stack: an epoch of          *)
(* `v1 .. vn <operands> WORD` and of the same program without the word      *)
(***************************************************************************)
\* the values v1 .. vn pushed before the words under test
MaxOperands == 3

\* a literal 0, a literal 7, and 2^64 - 1 read from the anamnesis by ORACLE
OpsOperands ==
    {[val |-> ZERO64, from_oracle |-> FALSE], [val |-> U64(7), from_oracle |-> FALSE],
     [val |-> MAX64, from_oracle |-> TRUE]}

\* base operands: 0, 100, the last two addresses, and two values of 2^16 and
\* more, which `as Address` narrows to 5 and to 65535
OpsBases == {ZERO64, U64(100), U64(65534), U64(65535), U64(65541), MAX64}

\* the cell of the anamnesis the i-th value is read from
OperandCell(i) == 200 + i

RECURSIVE OpsPushes(_, _)
OpsPushes(vs, i) ==
    IF i > Len(vs) THEN << >>
    ELSE Operand(vs[i].val, OperandCell(i), vs[i].from_oracle) \o OpsPushes(vs, i + 1)

\* what the anamnesis holds at the addresses the operands narrow to (0, 7
\* and 65535): values that earlier epochs wrote, two of them with provenance
OpsMemory ==
    MemWrite(MemWrite(MemWrite(MemoryNew, 0, ValueWithProv(U64(9), {40})), 7, Lit(11)),
             65535, ValueWithProv(bit_not(U64(1)), {7, 41}))

RECURSIVE OpsAnamnesis(_, _)
OpsAnamnesis(vs, i) ==
    IF i > Len(vs) THEN OpsMemory
    ELSE MemWrite(OpsAnamnesis(vs, i + 1), OperandCell(i), Value(vs[i].val))

\* the epoch of body on the anamnesis of the operands
OpsEpoch(body) ==
    execute_block(executor, body, 1,
                  VmStateNew(anamnesis, ResetCursor(executor.input_cursor), stdin))

\* what the model keeps of one experiment: the word, its operands, the state
\* after `v1 .. vn` and the state after the whole body
OpsEntryAfter(word, base, index, pre, body) ==
    [word |-> word, base |-> base, index |-> index,
     before |-> OpsEpoch(OpsPushes(trajectory, 1) \o pre),
     final |-> OpsEpoch(OpsPushes(trajectory, 1) \o pre \o body),
     result |-> ErrorIfErr(OpsEpoch(OpsPushes(trajectory, 1) \o pre \o body))]

OpsEntry(word, base, index, body) == OpsEntryAfter(word, base, index, << >>, body)

OpsInit ==
    /\ trajectory \in UNION {[1..n -> OpsOperands] : n \in 0..MaxOperands}
    /\ anamnesis = OpsAnamnesis(trajectory, 1)
    /\ \E b \in BOOLEAN :
          executor = [config |-> [max_instructions |-> MaxInstructions, input |-> << >>],
                      input_cursor |-> 0, overflow_checks |-> b]
    /\ program = 1
    /\ seen_states = << >>
    /\ pc = "ops"
    /\ history = << >>
    /\ stdin = << >>
    /\ stdin0 = stdin
    /\ config = [max_epochs |-> 0, mode |-> "Standard", seed |-> ZERO64]
    /\ epoch = 0
    /\ outcome = NoStatus
    /\ run_no = 1
    /\ first_outcome = NoStatus
    /\ trivial = FALSE

OpsDone(entry) ==
    /\ pc = "ops"
    /\ pc' = "done"
    /\ history' = << entry >>
    /\ UNCHANGED << program, config, executor, stdin, stdin0, epoch, anamnesis, seen_states,
                    trajectory, outcome, run_no, first_outcome, trivial >>

\* `v1 .. vn base n PACK base n UNPACK`
PackUnpack ==
    \E base \in OpsBases :
        OpsDone(OpsEntry("Pack", base, ZERO64,
                         << PushV(base), Push(Len(trajectory)), Op("Pack"),
                            PushV(base), Push(Len(trajectory)), Op("Unpack") >>))

\* index operands: the depths of the model's stacks, and three values no
\* stack is as deep as
OpsIndexes == {U64(i) : i \in 0..MaxOperands} \cup {U64(65536), TOP_BIT, MAX64}

\* `v1 .. vn index PICK`
PickWord ==
    \E index \in OpsIndexes :
        OpsDone(OpsEntry("Pick", ZERO64, index, << PushV(index), Op("Pick") >>))

\* index operands of Index and Store: small ones, the last address, and two
\* values of 2^16 and more, which `as Address` narrows to 1 and to 65535
OpsOffsets == {ZERO64, U64(1), U64(2), U64(65535), U64(65537), MAX64}

\* `v1 .. vn base index STORE base index INDEX`
StoreIndex ==
    \E base \in OpsBases, index \in OpsOffsets :
        OpsDone(OpsEntry("Store", base, index,
                         << PushV(base), PushV(index), Op("Store"),
                            PushV(base), PushV(index), Op("Index") >>))

\* counts of Unpack: two cells, and more cells than a stack can hold
OpsCounts == {U64(2), MAX64}

\* `v1 .. vn base count UNPACK`
UnpackWord ==
    \E base \in OpsBases, count \in OpsCounts :
        OpsDone(OpsEntry("Unpack", base, count, << PushV(base), PushV(count), Op("Unpack") >>))

\* what the program has written before it enters the scope
ScopePre == WriteCell(5, 100) \o WriteCell(4, 300)

\* bodies of a scope: the value on top of the stack written into cell 100
\* and 8 into cell 300, and then nothing more, a PARADOX, a PARADOX in a
\* branch, or a pop from an empty stack; and a PARADOX before the writes
ScopeWrites == << Push(100), Op("Prophecy") >> \o WriteCell(8, 300)

ScopeBodies ==
    << ScopeWrites,
       ScopeWrites \o << Op("Paradox") >>,
       ScopeWrites \o << Push(1), IfThen(<< Op("Paradox") >>) >>,
       ScopeWrites \o << Op("Pop") >>,
       << Op("Paradox") >> \o ScopeWrites >>

\* windows: cells 100 and 101, cell 300 alone, no cell, and every cell
\* from 0 to 400
ScopeWindows == {<< 100, 2 >>, << 300, 1 >>, << 100, 0 >>, << 0, 401 >>}

\* `v1 .. vn <writes> TEMPORAL base size { body }`
ScopeWord ==
    \E w \in ScopeWindows, b \in 1..Len(ScopeBodies) :
        OpsDone(OpsEntryAfter("TemporalScope", w, b, ScopePre,
                              << TemporalScope(w[1], w[2], ScopeBodies[b]) >>))

\* `<writes> v1 .. vn ORACLE`: the address is vn
OracleWord == OpsDone(OpsEntryAfter("Oracle", ZERO64, ZERO64, ScopePre, << Op("Oracle") >>))

\* `<writes> v1 .. vn PROPHECY`: the address is vn, the value v(n-1)
ProphecyWord == OpsDone(OpsEntryAfter("Prophecy", ZERO64, ZERO64, ScopePre, << Op("Prophecy") >>))

OpsNext ==
    \/ PackUnpack
    \/ PickWord
    \/ StoreIndex
    \/ UnpackWord
    \/ ScopeWord
    \/ OracleWord
    \/ ProphecyWord

SpecOps == OpsInit /\ [][OpsNext]_vars

(***************************************************************************)
(* Program::inline_procedures, and an epoch of the program it returns      *)
(***************************************************************************)
Procedure(name, body) == [name |-> name, body |-> body]

ProgramWith(procedures, body) == [procedures |-> procedures, body |-> body]

\* the calls nested inside one another that the stack of the thread has
\* room for while inline_stmt recurses
MaxInlineDepth == 4

\* proc_map.get(name): the map is collected from the procedures in their
\* order, so the last procedure of a name is the one it holds; 0 for None
RECURSIVE ProcLookup(_, _, _)
ProcLookup(procs, name, i) ==
    IF i = 0 THEN 0
    ELSE IF procs[i].name = name THEN i
    ELSE ProcLookup(procs, name, i - 1)

\* in place of a statement: the recursion ran out of stack here
StackOverflow == [k |-> "StackOverflow"]

RECURSIVE inline_stmts(_, _, _)
RECURSIVE inline_stmt(_, _, _)
inline_stmts(stmts, procs, room) ==
    [i \in 1..Len(stmts) |-> inline_stmt(stmts[i], procs, room)]

inline_stmt(stmt, procs, room) ==
    CASE stmt.k = "Call" ->
            IF ProcLookup(procs, stmt.name, Len(procs)) # 0
            THEN IF room = 0 THEN StackOverflow
                 ELSE Block(inline_stmts(procs[ProcLookup(procs, stmt.name, Len(procs))].body,
                                         procs, room - 1))
            ELSE stmt
      [] stmt.k = "If" ->
            [stmt EXCEPT !.then_branch = inline_stmts(stmt.then_branch, procs, room),
                         !.else_branch = inline_stmts(stmt.else_branch, procs, room)]
      [] stmt.k = "While" ->
            While(inline_stmts(stmt.cond, procs, room), inline_stmts(stmt.body, procs, room))
      [] stmt.k = "Block" -> Block(inline_stmts(stmt.stmts, procs, room))
      [] stmt.k = "TemporalScope" ->
            TemporalScope(stmt.base, stmt.size, inline_stmts(stmt.body, procs, room))
      [] OTHER -> stmt

\* the kinds k of statement that ss holds at any depth, Match cases and
\* defaults included, each with the name it calls ("" if it is no Call)
RECURSIVE StmtsOf(_)
StmtsOf(ss) ==
    UNION { LET stmt == ss[i] IN
            {<< stmt.k, IF stmt.k = "Call" THEN stmt.name ELSE "" >>} \cup
            CASE stmt.k = "If" -> StmtsOf(stmt.then_branch) \cup StmtsOf(stmt.else_branch)
              [] stmt.k = "While" -> StmtsOf(stmt.cond) \cup StmtsOf(stmt.body)
              [] stmt.k = "Block" -> StmtsOf(stmt.stmts)
              [] stmt.k = "TemporalScope" -> StmtsOf(stmt.body)
              [] stmt.k = "Match" ->
                    UNION { StmtsOf(stmt.cases[j][2]) : j \in 1..Len(stmt.cases) }
                    \cup StmtsOf(stmt.default)
              [] OTHER -> {}
          : i \in 1..Len(ss) }

\* what a call of inline_procedures comes to: the program it returns, or
\* the abort of the process on the overflow of the stack
Inlined(body) ==
    IF << "StackOverflow", "" >> \in StmtsOf(body)
    THEN [kind |-> "Aborted", program |-> ProgramWith(<< >>, << >>)]
    ELSE [kind |-> "Inlined", program |-> ProgramWith(<< >>, body)]

inline_procedures(p) == Inlined(inline_stmts(p.body, p.procedures, MaxInlineDepth))

Foo == Procedure("foo", << Push(5), Op("Output") >>)

InlinePrograms == <<
    \* 1: no procedure
    ProgramWith(<< >>, << Push(10), Push(20), Op("Add"), Op("Output") >>),
    \* 2: one procedure, called twice
    ProgramWith(<< Foo >>, << Call("foo"), Call("foo") >>),
    \* 3: calls in a Block, in both branches of an If and in the condition
    \* and the body of a While, of procedures that call procedures
    ProgramWith(<< Foo, Procedure("zero", << Push(0) >>),
                   Procedure("twice", << Call("foo"), Block(<< Call("foo") >>) >>) >>,
                << Block(<< Call("twice") >>), Push(1),
                   If(<< Call("foo") >>, << Call("twice") >>),
                   While(<< Call("zero") >>, << Call("foo") >>) >>),
    \* 4: a call in a TemporalScope
    ProgramWith(<< Foo >>, << TemporalScope(0, 4, << Call("foo") >>) >>),
    \* 5: a call in a Match case
    ProgramWith(<< Foo >>, << Push(0), MatchNoDefault(<< << ZERO64, << Call("foo") >> >> >>) >>),
    \* 6: a call in a Match default
    ProgramWith(<< Foo >>, << Push(1), Match(<< << ZERO64, << Op("Nop") >> >> >>,
                                             << Call("foo") >>) >>),
    \* 7: a procedure whose Match holds a call
    ProgramWith(<< Foo, Procedure("pick", << Match(<< << ZERO64, << Call("foo") >> >> >>,
                                                      << Op("Nop") >>) >>) >>,
                << Push(0), Call("pick") >>),
    \* 8: a procedure that calls itself
    ProgramWith(<< Procedure("loop", << Op("Nop"), Call("loop") >>) >>, << Call("loop") >>),
    \* 9: two procedures that call each other
    ProgramWith(<< Procedure("ping", << Call("pong") >>),
                   Procedure("pong", << Push(1), IfThen(<< Call("ping") >>) >>) >>,
                << Call("ping") >>),
    \* 10: a procedure that calls itself and is never called
    ProgramWith(<< Foo, Procedure("loop", << Call("loop") >>) >>, << Call("foo") >>),
    \* 11: a call of a procedure that is not defined
    ProgramWith(<< Foo >>, << Call("foo"), Call("bar") >>),
    \* 12: four procedures, each calling the next
    ProgramWith(<< Procedure("a", << Call("b") >>), Procedure("b", << Call("c") >>),
                   Procedure("c", << Call("d") >>), Procedure("d", << Push(4), Op("Output") >>) >>,
                << Call("a") >>),
    \* 13: two procedures of one name
    ProgramWith(<< Foo, Procedure("foo", << Push(6), Op("Output") >>) >>, << Call("foo") >>),
    \* 14: a procedure defined again, the second definition calling the name
    ProgramWith(<< Foo, Procedure("foo", << Call("foo"), Call("foo") >>) >>, << Call("foo") >>)
>>

InlineInit ==
    /\ program \in 1..Len(InlinePrograms)
    /\ \E b \in BOOLEAN, n \in VmBudgets, input \in InputChoices :
          executor = [config |-> [max_instructions |-> n, input |-> input],
                      input_cursor |-> 0, overflow_checks |-> b]
    /\ stdin = << >>
    /\ stdin0 = stdin
    /\ pc = "parsed"
    /\ config = [max_epochs |-> 0, mode |-> "Standard", seed |-> ZERO64]
    /\ epoch = 0
    /\ anamnesis = MemoryNew
    /\ seen_states = << >>
    /\ trajectory = << >>
    /\ outcome = NoStatus
    /\ run_no = 1
    /\ first_outcome = NoStatus
    /\ trivial = FALSE
    /\ history = << >>

\* main: `parsed_program.inline_procedures()` if the program has procedures
InlineProcedures ==
    /\ pc = "parsed"
    /\ outcome' = IF InlinePrograms[program].procedures # << >>
                  THEN inline_procedures(InlinePrograms[program])
                  ELSE [kind |-> "Inlined", program |-> InlinePrograms[program]]
    /\ pc' = IF outcome'.kind = "Aborted" THEN "aborted" ELSE "inlined"
    /\ UNCHANGED << program, config, executor, stdin, stdin0, epoch, anamnesis, seen_states,
                    trajectory, run_no, first_outcome, trivial, history >>

\* an epoch of the program that inline_procedures returned
RunInlined ==
    /\ pc = "inlined"
    /\ \E anam \in ProbeAnamneses :
          /\ history' = << Entry(anam, stdin, run_epoch(executor, outcome.program, anam, stdin)) >>
          /\ anamnesis' = anam
    /\ pc' = "done"
    /\ UNCHANGED << program, config, executor, stdin, stdin0, epoch, seen_states,
                    trajectory, outcome, run_no, first_outcome, trivial >>

InlineNext == InlineProcedures \/ RunInlined

SpecInline == InlineInit /\ [][InlineNext]_vars

(***************************************************************************)
(* The type checker on one statement between a prefix and a PresentRead    *)
(***************************************************************************)
\* what is on the abstract stack when the statement is checked: the types
\* (Pure, Pure), (Pure, Temporal), (Temporal, Pure), (Temporal, Temporal)
TypePrefixes == <<
    << Push(1), Push(2) >>,
    << Push(1), Push(0), Op("Oracle") >>,
    << Push(0), Op("Oracle"), Push(2) >>,
    << Push(0), Op("Oracle"), Op("Dup") >>
>>

\* the blocks the statement is built from
TypeBodies == <<
    << Push(7) >>,
    << Op("Pop"), Push(0), Op("Oracle") >>,
    << Op("Pop") >>,
    << Push(0), Op("Oracle"), Push(3), Op("Add") >>,
    << Push(1), Op("PresentRead") >>
>>

\* a PresentRead at a literal address, and one at an address read by ORACLE
TypeSuffixes == <<
    << Push(0), Op("PresentRead") >>,
    << Push(0), Op("Oracle"), Op("PresentRead") >>
>>

TypeBody(i) == IF i = 0 THEN << >> ELSE TypeBodies[i]

\* the checker after check_statements(prefix), after the statement that
\* follows it, and the result of type_check on prefix, statement and suffix
TypeEntry(word, prefix, stmt, suffix) ==
    [word |-> word,
     stmt |-> stmt,
     before |-> check_statements(TypeCheckerNew, prefix, 1),
     after |-> check_statements(TypeCheckerNew, Append(prefix, stmt), 1),
     result |-> type_check(Append(prefix, stmt) \o suffix)]

\* trajectory: three indexes of blocks (0: none) and the index of a suffix
TypesInit ==
    /\ program \in 1..Len(TypePrefixes)
    /\ trajectory \in { << a, b, c, s >> : a \in 0..Len(TypeBodies), b \in 0..Len(TypeBodies),
                                            c \in 0..Len(TypeBodies), s \in 1..Len(TypeSuffixes) }
    /\ executor = [config |-> [max_instructions |-> MaxInstructions, input |-> << >>],
                   input_cursor |-> 0, overflow_checks |-> FALSE]
    /\ anamnesis = MemoryNew
    /\ seen_states = << >>
    /\ pc = "types"
    /\ history = << >>
    /\ stdin = << >>
    /\ stdin0 = stdin
    /\ config = [max_epochs |-> 0, mode |-> "Standard", seed |-> ZERO64]
    /\ epoch = 0
    /\ outcome = NoStatus
    /\ run_no = 1
    /\ first_outcome = NoStatus
    /\ trivial = FALSE

TypesDone(word, stmt) ==
    /\ pc = "types"
    /\ pc' = "done"
    /\ history' = << TypeEntry(word, TypePrefixes[program], stmt, TypeSuffixes[trajectory[4]]) >>
    /\ UNCHANGED << program, config, executor, stdin, stdin0, epoch, anamnesis, seen_states,
                    trajectory, outcome, run_no, first_outcome, trivial >>

\* the cases of the Match: the blocks of the first two indexes that are not 0
MatchCases ==
    (IF trajectory[1] = 0 THEN << >> ELSE << << U64(1), TypeBodies[trajectory[1]] >> >>)
    \o (IF trajectory[2] = 0 THEN << >> ELSE << << U64(2), TypeBodies[trajectory[2]] >> >>)

\* `<prefix> MATCH { 1 => .. 2 => .. _ => .. } <suffix>`
CheckMatch ==
    TypesDone("Match", IF trajectory[3] = 0 THEN MatchNoDefault(MatchCases)
                       ELSE Match(MatchCases, TypeBodies[trajectory[3]]))

\* `<prefix> IF { .. } [ELSE { .. }] <suffix>`
CheckIf ==
    TypesDone("If", IF trajectory[2] = 0 THEN IfThen(TypeBody(trajectory[1]))
                    ELSE If(TypeBody(trajectory[1]), TypeBodies[trajectory[2]]))

\* `<prefix> WHILE { .. DUP } { .. } <suffix>`: the condition is the type on
\* top of the stack after the first block
CheckWhile ==
    TypesDone("While", While(Append(TypeBody(trajectory[1]), Op("Dup")), TypeBody(trajectory[2])))

TypesNext == CheckMatch \/ CheckIf \/ CheckWhile

SpecTypes == TypesInit /\ [][TypesNext]_vars

(***************************************************************************)
(* The breakpoints of a Debugger (debugger.rs)                             *)
(***************************************************************************)
\* calls of add_breakpoint and remove_breakpoint on one Debugger
MaxDebuggerCalls == 5

\* the lines breakpoints are set at
BreakLines == {5, 9}

Breakpoint(id, line) == [id |-> id, line |-> line, condition |-> "None", enabled |-> TRUE]

\* Debugger::new: history holds self.breakpoints, epoch counts the calls
DebuggerInit ==
    /\ history = << >>
    /\ epoch = 0
    /\ pc = "debugger"
    /\ outcome = [kind |-> "New", id |-> 0, held |-> 0, removed |-> 0]
    /\ program = 1
    /\ executor = [config |-> [max_instructions |-> MaxInstructions, input |-> << >>],
                   input_cursor |-> 0, overflow_checks |-> FALSE]
    /\ anamnesis = MemoryNew
    /\ seen_states = << >>
    /\ trajectory = << >>
    /\ stdin = << >>
    /\ stdin0 = stdin
    /\ config = [max_epochs |-> 0, mode |-> "Standard", seed |-> ZERO64]
    /\ run_no = 1
    /\ first_outcome = NoStatus
    /\ trivial = FALSE

\* the breakpoints of bs whose id is not id, in their order
RECURSIVE retain(_, _)
retain(bs, id) ==
    IF bs = << >> THEN << >>
    ELSE IF bs[1].id # id THEN << bs[1] >> \o retain(Tail(bs), id)
    ELSE retain(Tail(bs), id)

\* the breakpoints after add_breakpoint(line); the id returned is that of
\* the last of them
add_breakpoint(bs, line) == Append(bs, Breakpoint(Len(bs), line))

\* outcome: the call made, the id returned or given, how many breakpoints
\* held that id before the call and how many the call removed
AddBreakpoint ==
    /\ pc = "debugger"
    /\ epoch < MaxDebuggerCalls
    /\ \E line \in BreakLines :
          /\ history' = add_breakpoint(history, line)
          /\ outcome' = [kind |-> "Added", id |-> history'[Len(history')].id,
                         held |-> Len(history) - Len(retain(history, history'[Len(history')].id)),
                         removed |-> 0]
    /\ epoch' = epoch + 1
    /\ UNCHANGED << program, config, executor, stdin, stdin0, pc, anamnesis, seen_states,
                    trajectory, run_no, first_outcome, trivial >>

RemoveBreakpoint ==
    /\ pc = "debugger"
    /\ epoch < MaxDebuggerCalls
    /\ \E id \in 0..MaxDebuggerCalls :
          /\ history' = retain(history, id)
          /\ outcome' = [kind |-> "Removed", id |-> id,
                         held |-> Len(history) - Len(retain(history, id)),
                         removed |-> Len(history) - Len(history')]
    /\ epoch' = epoch + 1
    /\ UNCHANGED << program, config, executor, stdin, stdin0, pc, anamnesis, seen_states,
                    trajectory, run_no, first_outcome, trivial >>

DebuggerNext == AddBreakpoint \/ RemoveBreakpoint

SpecDebugger == DebuggerInit /\ [][DebuggerNext]_vars

(***************************************************************************)
(* DeltaTracker::compute_delta over a sequence of calls (memo.rs)          *)
(***************************************************************************)
\* calls of compute_delta on one DeltaTracker
MaxDeltaCalls == 3

\* what cells 0 and 1 of the memories hold: 0, two values, and a value with
\* provenance
DeltaValues == {Lit(0), Lit(10), Lit(20), ValueWithProv(U64(10), ProvSingle(3))}

DeltaMemories == { MemWrite(MemWrite(MemoryNew, 0, a), 1, b) : a, b \in DeltaValues }

\* the addresses of Memory::non_zero_cells
NonZeroAddrs(m) == { a \in DOMAIN m.cells : m.cells[a].val # ZERO64 }

\* compute_delta on a tracker whose previous_nonzero is previous: the
\* addresses pushed to `changed`, as a set, and the previous_nonzero left.
\* `old.read(addr) != new.read(addr)` compares Values, provenance included.
compute_delta(previous, old, new) ==
    [kind |-> "Delta",
     changed |-> { a \in previous \cup NonZeroAddrs(new) : MemRead(old, a) # MemRead(new, a) },
     previous_nonzero |-> NonZeroAddrs(new)]

\* DeltaTracker::new: outcome holds the tracker and what its last call
\* returned, history the arguments of the last call, epoch counts the calls
DeltaInit ==
    /\ outcome = [kind |-> "New", changed |-> {}, previous_nonzero |-> {}]
    /\ history = << >>
    /\ epoch = 0
    /\ pc = "delta"
    /\ program = 1
    /\ executor = [config |-> [max_instructions |-> MaxInstructions, input |-> << >>],
                   input_cursor |-> 0, overflow_checks |-> FALSE]
    /\ anamnesis = MemoryNew
    /\ seen_states = << >>
    /\ trajectory = << >>
    /\ stdin = << >>
    /\ stdin0 = stdin
    /\ config = [max_epochs |-> 0, mode |-> "Standard", seed |-> ZERO64]
    /\ run_no = 1
    /\ first_outcome = NoStatus
    /\ trivial = FALSE

ComputeDelta ==
    /\ pc = "delta"
    /\ epoch < MaxDeltaCalls
    /\ \E old \in DeltaMemories, new \in DeltaMemories :
          /\ outcome' = compute_delta(outcome.previous_nonzero, old, new)
          /\ history' = << [old |-> old, new |-> new, previous |-> outcome.previous_nonzero] >>
    /\ epoch' = epoch + 1
    /\ UNCHANGED << program, config, executor, stdin, stdin0, pc, anamnesis, seen_states,
                    trajectory, run_no, first_outcome, trivial >>

DeltaNext == ComputeDelta

SpecDelta == DeltaInit /\ [][DeltaNext]_vars

(***************************************************************************)
(* Properties                                                              *)
(***************************************************************************)
Done == pc = "done"

SameEpochResult(r1, r2) ==
    /\ values_equal(r1.present, r2.present)
    /\ r1.output = r2.output
    /\ r1.status = r2.status
    /\ r1.instructions_executed = r2.instructions_executed
    /\ r1.panicked = r2.panicked

LastEntry == history[Len(history)]

\* C1: a memory returned as Consistent is a fixed point of run_epoch: one
\* more epoch on it, with the input the last epoch had, gives a present that
\* is value-equal to it, on every path that returns Consistent.
C1_ConsistentIsFixedPoint ==
    (Done /\ outcome.kind = "Consistent") =>
        values_equal(run_epoch(executor, TheProgram, outcome.memory, LastEntry.stdin).present,
                     outcome.memory)

\* no Oracle opcode anywhere in the statement tree of the program
OracleFree(p) == ~ UsesOp(Programs[p].body, {"Oracle"})

C3_ShortcutIgnoresAnamnesis ==
    (Done /\ trivial) =>
        \A anam \in ProbeAnamneses :
            LET r0 == run_epoch(executor, TheProgram, MemoryNew, stdin0)
                r1 == run_epoch(executor, TheProgram, anam, stdin0)
            IN  /\ values_equal(r0.present, r1.present)
                /\ r0.output = r1.output
                /\ r0.status = r1.status

C5_DriverIsDeterministic ==
    (Done /\ run_no = 2) => outcome = first_outcome

C5_Witness ==
    /\ Done /\ run_no = 2
    /\ outcome.kind = "Oscillation" /\ outcome.period = 2
    /\ stdin0 # << >>

CycleModes == {"Standard", "Diagnostic"}

\* C6: when run returns Oscillation with period p, found at epoch index k,
\* the anamnesis of epoch k is value-equal, cell by cell, to the anamnesis of
\* epoch k - p, and p is at least 1 and at most k.
C6_OscillationIsRevisit ==
    (Done /\ outcome.kind = "Oscillation") =>
        /\ outcome.period >= 1 /\ outcome.period <= epoch
        /\ values_equal(anamnesis, history[epoch - outcome.period + 1].anamnesis)

\* iterating A' = present from anam finds, within n epochs, an epoch that
\* Finished with a present value-equal to its anamnesis
RECURSIVE ReachesFixedPoint(_, _, _, _)
ReachesFixedPoint(ex, anam, in, n) ==
    IF n = 0 THEN FALSE
    ELSE LET r == run_epoch(ex, TheProgram, anam, in) IN
         IF r.panicked \/ r.status.tag # "Finished" THEN FALSE
         ELSE IF values_equal(r.present, anam) THEN TRUE
         ELSE ReachesFixedPoint(After(ex, r), r.present, r.stdin, n - 1)

\* C7: when run returns Divergence, iterating from the same seed does not
\* reach, within max_epochs epochs, an epoch whose present is value-equal to
\* its anamnesis.
C7_DivergenceExcludesFixedPoint ==
    (Done /\ outcome.kind = "Divergence") =>
        ~ ReachesFixedPoint(executor, create_initial_anamnesis(config.seed), stdin0,
                            config.max_epochs)

\* the cells in which two states differ
DifferingCells(s1, s2) ==
    { a \in DOMAIN s1.cells \cup DOMAIN s2.cells : MemRead(s1, a).val # MemRead(s2, a).val }

\* exactly one cell differs, and its two values are bitwise complements or
\* exactly one of them is zero
IsNegativeLoop(s1, s2) ==
    /\ Cardinality(DifferingCells(s1, s2)) = 1
    /\ \E a \in DifferingCells(s1, s2) :
          LET v1 == MemRead(s1, a).val
              v2 == MemRead(s2, a).val
          IN  v1 = bit_not(v2) \/ ((v1 = ZERO64) # (v2 = ZERO64))

\* C8: in Standard and in Diagnostic mode, an Oscillation of period 2 whose
\* two states differ in exactly one cell, by complement or with exactly one
\* value zero, carries the diagnosis NegativeLoop naming that cell; every
\* other Oscillation carries the generic diagnosis.
C8_NegativeLoopDiagnosis ==
    (Done /\ outcome.kind = "Oscillation" /\ config.mode \in CycleModes /\ epoch >= 2) =>
        LET s1 == history[epoch - 1].anamnesis
            s2 == history[epoch].anamnesis
        IN  IF outcome.period = 2 /\ IsNegativeLoop(s1, s2)
            THEN /\ outcome.diagnosis.kind = "NegativeLoop"
                 /\ outcome.diagnosis.cells = DifferingCells(s1, s2)
            ELSE outcome.diagnosis.kind = "Oscillation"

\* each epoch of the loop Finished with a present not value-equal to its
\* anamnesis
AllEpochsMoved ==
    \A i \in 1..Len(history) :
        /\ history[i].result.status.tag = "Finished"
        /\ ~ values_equal(history[i].result.present, history[i].anamnesis)

\* what C9 says of a run that has returned
TimeoutRule ==
    /\ Len(history) <= config.max_epochs
    /\ (outcome.kind = "Timeout") <=> (Len(history) = config.max_epochs /\ AllEpochsMoved)
    /\ (outcome.kind = "Timeout") => (outcome.max_epochs = config.max_epochs)
    /\ (config.max_epochs = 0) => (outcome.kind = "Timeout" /\ history = << >>)

\* C9, as claimed: in Standard and Diagnostic mode at most max_epochs epochs
\* are started, and run returns Timeout{max_epochs} exactly when max_epochs
\* epochs were run and each Finished with a present not value-equal to its
\* anamnesis; with max_epochs = 0 run returns Timeout and runs no epoch.
C9_TimeoutExactlyAtBudget ==
    (Done /\ config.mode \in CycleModes) => TimeoutRule

\* C9, amended: the same, for the runs that enter the loop of run_standard
\* or run_diagnostic, which are the runs of the programs on which
\* is_trivially_consistent is false.
C9_TimeoutExactlyAtBudgetInLoop ==
    (Done /\ config.mode \in CycleModes /\ ~ trivial) => TimeoutRule

C9_Witness ==
    /\ Done /\ config.mode = "Diagnostic" /\ ~ trivial
    /\ outcome.kind = "Timeout" /\ config.max_epochs = 3 /\ Len(history) = 3

\* C10: run does not panic; an epoch never ends with status Running; and an
\* epoch that ends in Error (stack underflow, Pick out of range, a Call that
\* was not resolved) makes run return Error with its message and the
\* 1-based number of that epoch.
C10_FailuresSurfaceAsStatus ==
    Done =>
        /\ outcome.kind # "Panic"
        /\ \A i \in 1..Len(history) : history[i].result.status.tag # "Running"
        /\ (history # << >> /\ LastEntry.result.status.tag = "Error") =>
              outcome = Error(LastEntry.result.status.msg, Len(history))

\* the part of a VmState that C11 speaks of
Visible(st) == [stack |-> st.stack, present |-> st.present, output |-> st.output]

\* the state the cut body leaves, on the anamnesis and input of entry e
CutRun(e) ==
    execute_block(executor, VmPrograms[program].cut, 1,
                  VmStateNew(e.anamnesis, ResetCursor(executor.input_cursor), e.stdin))

\* C11: once the status of the epoch is non-Running (Halt, Paradox, or an
\* error), the statements that follow in the same Block, If branch, While
\* condition or body, or Match case body change neither the stack, nor the
\* present, nor the output: the epoch ends as it does without them.
C11_NothingRunsAfterStop ==
    program \in 1..Len(StopCases) =>
        \A i \in 1..Len(history) :
            Visible(history[i].final) = Visible(CutRun(history[i]))

\* the epoch returned with status Error or Paradox
EndedInFailure(r) == ~ r.panicked /\ r.status.tag \in {"Error", "Paradox"}

\* C12: when an epoch ends in Error or Paradox, the present of its
\* EpochResult holds exactly the values written by the Prophecy, Store and
\* Pack operations that completed before the failure, and zero elsewhere:
\* it is the present left by the body without its failing instruction and
\* what follows it.
C12_PresentKeepsCompletedWrites ==
    \A i \in 1..Len(history) :
        EndedInFailure(history[i].result) =>
            history[i].result.present = CutRun(history[i]).present

\* the bodies of ForeverCases
RunsForever ==
    /\ program > Len(StopCases) + Len(UnwindCases)
    /\ program <= Len(StopCases) + Len(UnwindCases) + Len(ForeverCases)

\* C13: with a finite max_instructions and no interactive input every epoch
\* terminates: run_epoch returns for every body and every anamnesis, and
\* for a body that would otherwise run forever it returns status Error.
C13_EveryEpochReturns ==
    \A i \in 1..Len(history) :
        /\ ~ history[i].result.panicked
        /\ RunsForever => history[i].result.status.tag = "Error"

\* every cell of m holds the value zero
AllZero(m) == \A a \in DOMAIN m.cells : m.cells[a].val = ZERO64

\* the write changed at most the provenance of its cell
ProvenanceOnly(w) == MemRead(w.old, w.addr).val = w.val.val

\* C14: after any sequence of writes from Memory::new(), state_hash() is the
\* hash recomputed from scratch, the XOR of hash_mix(address, value) over
\* the nonzero cells; the all-zero memory hashes to 0; a write that changes
\* only the provenance of a cell leaves the hash unchanged.
C14_IncrementalHashIsRecomputed ==
    /\ state_hash(anamnesis) = recompute_hash(anamnesis)
    /\ AllZero(anamnesis) => state_hash(anamnesis) = ZERO64
    /\ \A i \in 1..Len(history) :
          ProvenanceOnly(history[i]) =>
              state_hash(MemWrite(history[i].old, history[i].addr, history[i].val))
                  = state_hash(history[i].old)

\* a nonzero cell was overwritten by another nonzero value, a later write
\* changed the provenance of a nonzero cell and nothing else, and the
\* memory is not all zero
C14_Witness ==
    /\ pc = "mem"
    /\ \E i, j \in 1..Len(history) :
          /\ i < j
          /\ MemRead(history[i].old, history[i].addr).val \notin {ZERO64, history[i].val.val}
          /\ history[i].val.val # ZERO64
          /\ ProvenanceOnly(history[j])
          /\ history[j].val.val # ZERO64
          /\ MemRead(history[j].old, history[j].addr).prov # history[j].val.prov
    /\ ~ AllZero(anamnesis)

\* x <= y
AtMost(c) == c \in {"Less", "Equal"}

Reverse(c) == IF c = "Less" THEN "Greater" ELSE IF c = "Greater" THEN "Less" ELSE c

\* the value of cell a of m, as a number
CellNat(m, a) == Small(MemRead(m, a).val)

\* m1 is below m2 in the lexicographic order of the cell values, address 0
\* first: at the first address where they differ, m1 holds the lower value
LexLess(m1, m2) ==
    \E d \in (DOMAIN m1.cells) \cup (DOMAIN m2.cells) :
        /\ CellNat(m1, d) < CellNat(m2, d)
        /\ \A e \in (DOMAIN m1.cells) \cup (DOMAIN m2.cells) :
              e < d => CellNat(m1, e) = CellNat(m2, e)

\* C15: Memory::cmp is a total order on memories taken modulo provenance,
\* the lexicographic order of the cell values from address 0 upward:
\* comparisons are reflexive, antisymmetric and transitive, a is Less than
\* b exactly when a holds the lower value at the first cell where they
\* differ, and cmp returns Equal exactly when values_equal holds.
C15_CmpIsLexicographicTotalOrder ==
    pc = "compared" =>
        LET a == trajectory[1]
            b == trajectory[2]
            c == trajectory[3]
            t == history[1]
        IN  /\ t.aa = "Equal"
            /\ t.ba = Reverse(t.ab) /\ t.cb = Reverse(t.bc) /\ t.ca = Reverse(t.ac)
            /\ (AtMost(t.ab) /\ AtMost(t.bc)) => AtMost(t.ac)
            /\ (t.ab = "Less") = LexLess(a, b)
            /\ (t.bc = "Less") = LexLess(b, c)
            /\ (t.ac = "Less") = LexLess(a, c)
            /\ (t.ab = "Equal") = values_equal(a, b)
            /\ (t.bc = "Equal") = values_equal(b, c)
            /\ (t.ac = "Equal") = values_equal(a, c)

\* a and b differ in provenance only and compare Equal; b is below c by
\* cell 1, both holding the same value in cell 0, and c holds 256 where b
\* holds 1
C15_Witness ==
    /\ pc = "compared"
    /\ trajectory[1] # trajectory[2]
    /\ history[1].ab = "Equal"
    /\ MemRead(trajectory[1], 0).prov # MemRead(trajectory[2], 0).prov
    /\ history[1].bc = "Less"
    /\ MemRead(trajectory[2], 0).val = MemRead(trajectory[3], 0).val
    /\ MemRead(trajectory[2], 1).val = U64(1)
    /\ MemRead(trajectory[3], 1).val = U64(256)

\* v stands for an integer of small magnitude: v itself, or v - 2^64
HasRep(v) == Small(v) < UNPACK_LIMIT \/ Small(bit_not(v)) < UNPACK_LIMIT

Rep(v) == IF Small(v) < UNPACK_LIMIT THEN Small(v) ELSE 0 - (Small(bit_not(v)) + 1)

IsSmall(v) == Small(v) < UNPACK_LIMIT

\* r is a op b in the integers modulo 2^64, for the operands whose result
\* is known without 64-bit arithmetic
WrapsAs(op, a, b, r) ==
    /\ (HasRep(a) /\ HasRep(b)) =>
          /\ HasRep(r)
          /\ op = "Add" => Rep(r) = Rep(a) + Rep(b)
          /\ op = "Sub" => Rep(r) = Rep(a) - Rep(b)
          /\ op = "Mul" => Rep(r) = Rep(a) * Rep(b)
    /\ (a = TOP_BIT /\ b = TOP_BIT /\ op \in {"Add", "Sub"}) => r = ZERO64
    /\ (a = TOP_BIT /\ b = U64(2) /\ op = "Mul") => r = ZERO64
    /\ (a = TOP_BIT /\ b = TOP_BIT /\ op = "Mul") => r = ZERO64
    /\ (a = TOP_BIT /\ b = U64(7) /\ op = "Mul") => r = TOP_BIT

\* r is the unsigned quotient (remainder) of a by b, for the operands whose
\* result is known without 64-bit arithmetic; 0 when b is 0
DividesAs(op, a, b, r) ==
    /\ b = ZERO64 => r = ZERO64
    /\ (b # ZERO64 /\ IsSmall(a) /\ IsSmall(b)) =>
          /\ IsSmall(r)
          /\ op = "Div" => Small(r) = Small(a) \div Small(b)
          /\ op = "Mod" => Small(r) = Small(a) % Small(b)
    /\ (b # ZERO64 /\ u64_lt(a, b)) => r = (IF op = "Div" THEN ZERO64 ELSE a)
    /\ (b # ZERO64 /\ a = b) => r = (IF op = "Div" THEN U64(1) ELSE ZERO64)
    /\ b = U64(1) => r = (IF op = "Div" THEN a ELSE ZERO64)

\* the addresses the operands were read from
OperandOrigins(oracles) ==
    (IF oracles[1] THEN {OperandCells[1]} ELSE {}) \cup (IF oracles[2] THEN {OperandCells[2]} ELSE {})

\* C16: Add, Sub and Mul compute their result modulo 2^64; Div and Mod with
\* a zero divisor give 0 and the epoch ends Finished, not in Error; in
\* every case, the zero divisor included, the provenance of the result is
\* the union of the provenance of both operands.
C16_ArithmeticWrapsAndMerges ==
    pc = "done" =>
        LET op == ArithOps[program]
            a == trajectory[1]
            b == trajectory[2]
            r == history[1].result
        IN  /\ ~ r.panicked
            /\ r.status = Finished
            /\ Len(r.output) = 1
            /\ op \in {"Add", "Sub", "Mul"} => WrapsAs(op, a, b, r.output[1].val)
            /\ op \in {"Div", "Mod"} => DividesAs(op, a, b, r.output[1].val)
            /\ r.output[1].prov = OperandOrigins(seen_states)

\* a division of an oracle-read 7 by an oracle-read 0
C16_Witness ==
    /\ pc = "done"
    /\ ArithOps[program] = "Div"
    /\ trajectory = << U64(7), ZERO64 >>
    /\ seen_states = << TRUE, TRUE >>
    /\ history[1].result.output = << ValueWithProv(ZERO64, {OperandCells[1], OperandCells[2]}) >>
    /\ history[1].result.status = Finished

\* a body without If, While, Block, Call or Match
StraightLine(body) == \A i \in 1..Len(body) : body[i].k \in {"Op", "Push"}

\* the values two runs hold in the same place, with their provenance: the
\* k-th output, the k-th stack slot, and each cell of the present
SamePlace(e1, e2) ==
    { << e1.final.output[k], e2.final.output[k] >> :
        k \in 1..(IF Len(e1.final.output) < Len(e2.final.output)
                  THEN Len(e1.final.output) ELSE Len(e2.final.output)) }
    \cup { << e1.final.stack[k], e2.final.stack[k] >> :
        k \in 1..(IF Len(e1.final.stack) < Len(e2.final.stack)
                  THEN Len(e1.final.stack) ELSE Len(e2.final.stack)) }
    \cup { << MemRead(e1.final.present, a), MemRead(e2.final.present, a) >> :
        a \in (DOMAIN e1.final.present.cells) \cup (DOMAIN e2.final.present.cells) }

\* C17: the provenance of a value on the stack, in the output or in the
\* present contains every Oracle address read in producing it, also when
\* the value read served as an address operand of Prophecy, Store, Index
\* or Unpack.  Hence when two epochs of one straight-line body (all its
\* dependencies are through operands) on anamneses that differ in one cell
\* leave different values in the same place, the nonzero ones of these
\* values name that cell in their provenance.
C17_ProvenanceCoversOracleReads ==
    StraightLine(VmPrograms[program].body) =>
    \A i, j \in 1..Len(history) :
        LET d == MemDiff(history[i].anamnesis, history[j].anamnesis) IN
        Cardinality(d) = 1 =>
            \A p \in SamePlace(history[i], history[j]) :
                (p[1].val # p[2].val /\ p[1].val # ZERO64) => d \subseteq p[1].prov

\* type_check has returned its result for the body
TypeChecked == pc = "vm" /\ outcome # NoStatus

\* C18: if type_check labels a final stack slot, or a written cell, Pure,
\* then in no run of the program, under any anamnesis, does the value in
\* that stack slot, or in that cell, have a nonempty provenance.
C18_PureLabelsAreSound ==
    TypeChecked =>
        \A i \in 1..Len(history) :
            LET st == history[i].final IN
            /\ \A k \in 1..Len(outcome.final_stack_types) :
                  (k <= Len(st.stack) /\ outcome.final_stack_types[k] = "Pure")
                      => st.stack[k].prov = ProvNone
            /\ \A a \in DOMAIN outcome.cell_types :
                  outcome.cell_types[a] = "Pure" => MemRead(st.present, a).prov = ProvNone

\* C19: for a program with no Oracle and no PresentRead the type checker
\* produces no Temporal: neither in final_stack_types nor as the type of a
\* written cell.
C19_PureProgramsHaveNoTemporal ==
    (TypeChecked /\ ~ UsesOp(VmPrograms[program].body, {"Oracle", "PresentRead"})) =>
        /\ \A k \in 1..Len(outcome.final_stack_types) : outcome.final_stack_types[k] # "Temporal"
        /\ \A a \in DOMAIN outcome.cell_types : outcome.cell_types[a] # "Temporal"

\* the epochs of the run follow A_{j+1} = P_j and the last of the k is the
\* first whose present value-equals its anamnesis
FirstFixedPoint(k, memory) ==
    /\ Len(history) = k
    /\ \A j \in 1..(k - 1) :
          /\ history[j].result.status = Finished
          /\ ~ values_equal(history[j].result.present, history[j].anamnesis)
          /\ history[j + 1].anamnesis = history[j].result.present
    /\ memory = history[k].result.present
    /\ values_equal(memory, history[k].anamnesis)

\* C20, as claimed: in Standard, Diagnostic and Pure mode, when run returns
\* Consistent with memory M and epochs = k, each epoch j < k Finished with
\* a present not value-equal to its anamnesis, the anamnesis of epoch j + 1
\* was the present of epoch j, and M is the present of epoch k and
\* value-equals the anamnesis of epoch k.
C20_ConsistentIsFirstFixedPoint ==
    (Done /\ outcome.kind = "Consistent") => FirstFixedPoint(outcome.epochs, outcome.memory)

\* C20, amended: when run does not take the shortcut for trivially
\* consistent programs and returns Consistent with memory M and epochs = k,
\* the first epoch ran on the anamnesis made from the seed, each epoch
\* j < k Finished with a present not value-equal to its anamnesis, the
\* anamnesis of epoch j + 1 was the present of epoch j, and M is the
\* present of epoch k and value-equals the anamnesis of epoch k.  On the
\* shortcut, Consistent has epochs = 1 and M is the present of the single
\* epoch, run on the all-zero anamnesis.
C20_LoopReturnsFirstFixedPoint ==
    (Done /\ outcome.kind = "Consistent") =>
        IF trivial
        THEN /\ outcome.epochs = 1
             /\ Len(history) = 1
             /\ history[1].anamnesis = MemoryNew
             /\ history[1].result.status = Finished
             /\ outcome.memory = history[1].result.present
        ELSE /\ FirstFixedPoint(outcome.epochs, outcome.memory)
             /\ history[1].anamnesis = create_initial_anamnesis(config.seed)

\* a run of the loop that moved through at least two epochs before it
\* returned a fixed point that is not the all-zero memory
C20_Witness ==
    /\ Done
    /\ ~ trivial
    /\ outcome.kind = "Consistent"
    /\ outcome.epochs >= 3
    /\ ~ values_equal(outcome.memory, MemoryNew)

\* mem is the memory the seed s determines: cell i holds s * (i + 1) modulo
\* 2^64 for i in [0, 16) and every other cell 0 if s is not 0, and every
\* cell holds 0 if s is 0
SeededBy(mem, s) ==
    IF s = ZERO64 THEN \A a \in DOMAIN mem.cells : mem.cells[a].val = ZERO64
    ELSE \A a \in (DOMAIN mem.cells) \cup (0..15) :
            IF a < 16
            THEN HasRep(MemRead(mem, a).val) /\ Rep(MemRead(mem, a).val) = Rep(s) * (a + 1)
            ELSE MemRead(mem, a).val = ZERO64

\* C21: the anamnesis given to the first epoch of a run is the memory the
\* seed determines, for every program, also when the shortcut for trivially
\* consistent programs is taken.
C21_FirstAnamnesisIsSeeded ==
    history # << >> => SeededBy(history[1].anamnesis, config.seed)

\* C21 as the code has it: a run that enters the loop of its mode gives the
\* first epoch the memory the seed determines; a run that takes the shortcut
\* for trivially consistent programs gives its only epoch the all-zero
\* memory, whatever the seed.
C21_LoopAnamnesisIsSeeded ==
    history # << >> =>
        IF trivial THEN SeededBy(history[1].anamnesis, ZERO64)
        ELSE SeededBy(history[1].anamnesis, config.seed)

\* a first epoch of the loop has run on a seed whose multiples wrap
C21_Witness ==
    /\ history # << >>
    /\ ~ trivial
    /\ config.seed = MAX64
    /\ MemRead(history[1].anamnesis, 15).val = wrapping_neg(U64(16))

\* the epochs TimeLoop::run has executed so far
EpochsExecuted == IF trivial THEN 1 ELSE epoch

\* one of the epochs of the run ended it: it was a fixed point, a Paradox or
\* an Error
TerminalEpoch == outcome.kind \in {"Consistent", "Paradox", "Error"}

\* C22: in Pure mode run executes at most 10^6 epochs whatever max_epochs
\* is, a run that returns returns Timeout if none of them was terminal, and
\* run never returns Oscillation or Divergence.
C22_PureIsCappedAtAMillion ==
    config.mode = "Pure" =>
        /\ EpochsExecuted <= PURE_EPOCH_CAP
        /\ (pc = "done" /\ outcome.kind # "Panic") =>
                (TerminalEpoch \/ outcome.kind = "Timeout")
        /\ outcome.kind \notin {"Oscillation", "Divergence"}

\* the entry of the experiment with the word w, once it has run
Ran(w) == pc = "done" /\ history # << >> /\ history[1].word = w

\* C23: `v1 .. vn base n PACK base n UNPACK` leaves v1 .. vn on the stack in
\* their order, values and provenance, and present[base + j] = v_(j+1), for
\* every n, base and values.
C23_PackUnpackRoundTrip ==
    Ran("Pack") =>
        LET e == history[1] IN
        /\ ~ Failed(e.final)
        /\ e.final.stack = e.before.stack
        /\ \A j \in 0..(Len(trajectory) - 1) :
              MemRead(e.final.present, AddrAdd(AsAddress(e.base), j)) = e.before.stack[j + 1]

\* C24: Pick pops the index n and pushes a copy of the element n below the
\* new top; `0 PICK` is DUP on a stack of one or more, `1 PICK` is OVER on a
\* stack of two or more; with n not less than the remaining depth the epoch
\* ends in Error.
C24_PickCopiesNthBelowTop ==
    Ran("Pick") =>
        LET e == history[1]
            depth == Len(e.before.stack)
            n == Small(e.index)
        IN  /\ IF n < depth
               THEN /\ ~ Failed(e.final)
                    /\ e.final.stack = Append(e.before.stack, e.before.stack[depth - n])
               ELSE e.result.status.tag = "Error" /\ ~ e.result.panicked
            /\ (n = 0 /\ depth >= 1) =>
                  e.final.stack = OpsEpoch(OpsPushes(trajectory, 1) \o << Op("Dup") >>).stack
            /\ (n = 1 /\ depth >= 2) =>
                  e.final.stack = OpsEpoch(OpsPushes(trajectory, 1) \o << Op("Over") >>).stack

\* `1 PICK` has copied, from under a different top, a value read by ORACLE
C24_Witness ==
    /\ Ran("Pick")
    /\ history[1].index = U64(1)
    /\ Len(trajectory) = 3
    /\ trajectory[2].from_oracle /\ ~ trajectory[3].from_oracle /\ ~ trajectory[1].from_oracle
    /\ history[1].final.stack[4] = ValueWithProv(MAX64, history[1].before.stack[2].prov)
    /\ history[1].before.stack[2].prov # ProvNone

\* (base + index) mod 2^16, base and index narrowed to 16 bits
Wrapped(base, index) == (AsAddress(base) + AsAddress(index)) % MEMORY_SIZE

\* C25: Index, Store, Pack and Unpack narrow their address operands modulo
\* 2^16 and use the cell (base + index) mod 2^16; no combination of operands
\* makes them abort instead of wrapping.
C25_AddressesWrapAndNeverAbort ==
    /\ (Ran("Store") /\ Len(trajectory) >= 1) =>
          LET e == history[1] IN
          /\ ~ Failed(e.final)
          /\ e.final.stack = e.before.stack
          /\ MemRead(e.final.present, Wrapped(e.base, e.index)) = Peek(e.before, 0)
          /\ DOMAIN e.final.present.cells = {Wrapped(e.base, e.index)}
    /\ Ran("Pack") =>
          LET e == history[1] IN
          /\ ~ Failed(e.final)
          /\ DOMAIN e.final.present.cells =
                {Wrapped(e.base, U64(j)) : j \in 0..(Len(trajectory) - 1)}
    /\ (Ran("Unpack") /\ history[1].index = U64(2)) =>
          LET e == history[1] IN
          /\ ~ Failed(e.final)
          /\ e.final.stack = e.before.stack \o << VZERO, VZERO >>
    /\ Ran("Unpack") => ~ history[1].final.panicked

\* the body of the scope of the experiment, run in place of the scope
Unscoped == OpsEpoch(OpsPushes(trajectory, 1) \o ScopePre \o ScopeBodies[history[1].index])

\* C26: TemporalScope(base, size, body) commits the writes of a body that
\* terminates normally to the enclosing present; after a body that raises a
\* paradox the cells of [base, base + size) hold what they held when the
\* scope was entered, and the status of the epoch is Paradox.
C26_ScopeCommitsOrRestoresWindow ==
    Ran("TemporalScope") =>
        LET e == history[1]
            w == [base |-> e.base[1], size |-> e.base[2]]
        IN  /\ (~ Failed(Unscoped) /\ Unscoped.status.tag = "Running") =>
                  /\ ~ Failed(e.final)
                  /\ values_equal(e.final.present, Unscoped.present)
                  /\ e.final.present.cells = Unscoped.present.cells
            /\ Unscoped.status.tag = "Paradox" =>
                  /\ e.result.status.tag = "Paradox"
                  /\ \A a \in 0..400 :
                        InWindow(w, a) => MemRead(e.final.present, a) = MemRead(e.before.present, a)

\* a scope over cells 100 and 101 has put cell 100 back after a paradox that
\* came after the write of a value read by ORACLE, and left cell 300 written
C26_Witness ==
    /\ Ran("TemporalScope")
    /\ history[1].base = << 100, 2 >>
    /\ history[1].index = 2
    /\ Len(trajectory) >= 1 /\ trajectory[Len(trajectory)].from_oracle
    /\ MemRead(Unscoped.present, 100).val = MAX64
    /\ MemRead(history[1].final.present, 100) = Lit(5)
    /\ MemRead(history[1].final.present, 300) = Lit(8)

\* the states of the cycle of an Oscillation of period p found at epoch k:
\* the anamneses of the epochs k - p + 1 .. k
CycleOf(p) == { history[j].anamnesis : j \in (epoch - p + 1)..epoch }

\* the addresses, of the whole address space, whose value is not the same
\* in all states of ms
Oscillating(ms) ==
    { a \in UNION { DOMAIN m.cells : m \in ms } :
        \E m1 \in ms, m2 \in ms : MemRead(m1, a).val # MemRead(m2, a).val }

\* C27: the oscillating_cells of an Oscillation are exactly the addresses
\* whose value is not the same in all states of the cycle.
C27_OscillatingCellsAreExact ==
    (Done /\ outcome.kind = "Oscillation" /\ outcome.period >= 1 /\ outcome.period <= epoch) =>
        outcome.oscillating_cells = Oscillating(CycleOf(outcome.period))

\* C28: inline_procedures terminates for every program, also when its
\* procedures call themselves or one another.
C28_InliningTerminates ==
    pc \in {"inlined", "aborted", "done"} => outcome.kind = "Inlined"

\* the names that the statements ss call, at any depth
CallsOf(ss) == { s[2] : s \in { t \in StmtsOf(ss) : t[1] = "Call" } }

\* the names of the procedures the program of the experiment defines
Defined ==
    { InlinePrograms[program].procedures[i].name :
        i \in 1..Len(InlinePrograms[program].procedures) }

\* C29: the program inline_procedures returns holds no Call of a defined
\* procedure, in a Block, If, While, TemporalScope, Match case or Match
\* default, so an epoch of it never ends in the Error of a call that was not
\* inlined unless the procedure called is not defined.
C29_NoDefinedCallRemains ==
    /\ (pc \in {"inlined", "done"} /\ InlinePrograms[program].procedures # << >>) =>
          CallsOf(outcome.program.body) \cap Defined = {}
    /\ (pc = "done" /\ InlinePrograms[program].procedures # << >>
            /\ CallsOf(InlinePrograms[program].body) \subseteq Defined) =>
          history[1].result.status # ErrorStatus("Procedure call not inlined - ensure program is preprocessed")

\* the statements ss hold, at any depth, a word that may write the cell a: a
\* Prophecy that follows the literal a or no literal, a Store or a Pack
RECURSIVE MayWrite(_, _)
MayWrite(ss, a) ==
    \E i \in 1..Len(ss) :
        LET stmt == ss[i] IN
        CASE stmt.k = "Op" ->
                \/ stmt.op \in {"Store", "Pack"}
                \/ /\ stmt.op = "Prophecy"
                   /\ (i > 1 /\ ss[i - 1].k = "Push") => AsAddress(ss[i - 1].v.val) = a
          [] stmt.k = "If" -> MayWrite(stmt.then_branch, a) \/ MayWrite(stmt.else_branch, a)
          [] stmt.k = "While" -> MayWrite(stmt.cond, a) \/ MayWrite(stmt.body, a)
          [] stmt.k = "Block" -> MayWrite(stmt.stmts, a)
          [] stmt.k = "TemporalScope" -> MayWrite(stmt.body, a)
          [] stmt.k = "Match" ->
                (\E j \in 1..Len(stmt.cases) : MayWrite(stmt.cases[j][2], a))
                \/ MayWrite(stmt.default, a)
          [] OTHER -> FALSE

\* the Output words of ss, at any depth
RECURSIVE OutputWords(_, _)
OutputWords(ss, i) ==
    IF i > Len(ss) THEN 0
    ELSE OutputWords(ss, i + 1) +
         (LET stmt == ss[i] IN
          CASE stmt.k = "Op" -> IF stmt.op = "Output" THEN 1 ELSE 0
            [] stmt.k = "If" -> OutputWords(stmt.then_branch, 1) + OutputWords(stmt.else_branch, 1)
            [] stmt.k = "While" -> OutputWords(stmt.cond, 1) + OutputWords(stmt.body, 1)
            [] stmt.k = "Block" -> OutputWords(stmt.stmts, 1)
            [] stmt.k = "TemporalScope" -> OutputWords(stmt.body, 1)
            [] OTHER -> 0)

\* C30: every epoch starts from a fresh state: after run_epoch a cell of the
\* present that the program did not write holds 0, whatever the anamnesis
\* holds there and whatever earlier epochs left, and the output holds only
\* what this epoch put out.
C30_EpochStartsFresh ==
    \A i \in 1..Len(history) :
        LET r == history[i].result IN
        /\ \A a \in DOMAIN r.present.cells \cup DOMAIN history[i].anamnesis.cells :
              MayWrite(TheProgram.body, a) \/ MemRead(r.present, a) = VZERO
        /\ ~ UsesOp(TheProgram.body, {"While"}) =>
              Len(r.output) <= OutputWords(TheProgram.body, 1)

\* the second epoch on one Executor, on the anamnesis of seed 3: the
\* program copied cell 0 and the present holds nothing of cells 1 .. 15
C30_Witness ==
    /\ Len(history) >= 2
    /\ program = 2
    /\ history[2].anamnesis = create_initial_anamnesis(U64(3))
    /\ history[1].anamnesis = create_initial_anamnesis(U64(3))
    /\ DOMAIN history[2].result.present.cells = {0}
    /\ MemRead(history[2].result.present, 0).val = U64(3)
    /\ MemRead(history[2].anamnesis, 15).val = U64(48)

\* C31: Oracle pops an address value x, reads the anamnesis at a = x mod 2^16
\* and pushes the value there with the provenance of the cell, a, and the
\* provenance of x; it changes neither the anamnesis nor the present nor the
\* output.  Prophecy pops an address and then a value v and stores v, with
\* the provenance it has, at present[address mod 2^16].
C31_OracleReadsProphecyWrites ==
    /\ (Ran("Oracle") /\ Len(trajectory) >= 1) =>
          LET e == history[1]
              x == Peek(e.before, 0)
              a == AsAddress(x.val)
              cell == MemRead(anamnesis, a)
          IN  /\ ~ Failed(e.final)
              /\ e.final.stack = Drop(e.before, 1) \o
                    << [val |-> cell.val, prov |-> cell.prov \cup {a} \cup x.prov] >>
              /\ e.final.anamnesis = anamnesis
              /\ e.final.present = e.before.present
              /\ e.final.output = e.before.output
    /\ (Ran("Prophecy") /\ Len(trajectory) >= 2) =>
          LET e == history[1]
              a == AsAddress(Peek(e.before, 0).val)
          IN  /\ ~ Failed(e.final)
              /\ e.final.stack = Drop(e.before, 2)
              /\ MemRead(e.final.present, a) = Peek(e.before, 1)
              /\ \A b \in (DOMAIN e.final.present.cells \cup DOMAIN e.before.present.cells) \ {a} :
                    /\ b \in DOMAIN e.before.present.cells
                    /\ MemRead(e.final.present, b) = MemRead(e.before.present, b)
              /\ e.final.anamnesis = anamnesis
              /\ e.final.output = e.before.output

\* an Oracle on an address read by ORACLE, which narrows to 65535, where
\* the anamnesis holds a value with provenance
C31_Witness ==
    /\ Ran("Oracle")
    /\ Len(trajectory) = 2
    /\ trajectory[2].from_oracle
    /\ Peek(history[1].final, 0) = ValueWithProv(bit_not(U64(1)), {7, 41, 65535, OperandCell(2)})
    /\ history[1].before.present # MemoryNew

\* C32: when the run returns Divergence, the value of every cell of
\* diverging_cells moved strictly in the reported direction from each state
\* of the recorded trajectory to the next; a cell that moved the other way
\* is not reported under that direction.
C32_DivergingCellsMoveInDirection ==
    (Done /\ outcome.kind = "Divergence") =>
        \A a \in outcome.diverging_cells :
            IF outcome.direction = "Increasing"
            THEN StrictlyIncreasing(trajectory, a)
            ELSE StrictlyDecreasing(trajectory, a)

\* C33: a reported Oscillation has period at least 2, and an epoch that
\* Finished with a present value-equal to its anamnesis ends the run as
\* Consistent: it is the last epoch of the run and is never reported as an
\* oscillation of period 1.
C33_OscillationPeriodAtLeastTwo ==
    /\ (Done /\ outcome.kind = "Oscillation") => outcome.period >= 2
    /\ \A j \in 1..Len(history) :
          ( /\ pc # "idle"
            /\ ~ history[j].result.panicked
            /\ history[j].result.status = Finished
            /\ values_equal(history[j].result.present, history[j].anamnesis) ) =>
                /\ j = Len(history)
                /\ Done
                /\ outcome.kind = "Consistent"

\* the position-wise join of the abstract stacks of a list of branches
RECURSIVE JoinOf(_, _)
JoinOf(stacks, i) ==
    IF i = Len(stacks) THEN stacks[i] ELSE merge_stacks(stacks[i], JoinOf(stacks, i + 1))

\* the abstract stack after each analysed branch of the Match of the entry,
\* each branch checked from the stack the Match leaves when it has popped the
\* matched value
BranchStacks(e) ==
    LET snapshot == [e.before EXCEPT !.stack = TDrop(e.before, 1)]
        bodies == [j \in 1..Len(e.stmt.cases) |-> e.stmt.cases[j][2]]
                    \o (IF e.stmt.has_default THEN << e.stmt.default >> ELSE << >>)
    IN  [j \in 1..Len(bodies) |-> check_body(snapshot, bodies[j], 1).stack]

\* C34: for a Match the type checker pops the taint of the matched value and
\* analyses every case body, and the default, from the same stack snapshot;
\* the stack after the Match is the position-wise join of the stacks of the
\* branches, so that one case body's effects are not carried into the next.
C34_MatchJoinsBranchStacks ==
    (Ran("Match") /\ BranchStacks(history[1]) # << >>) =>
        history[1].after.stack = JoinOf(BranchStacks(history[1]), 1)

\* C35: after the checking of an If or a While the branch-taint flag has the
\* value it had before the statement, and a PresentRead that follows the
\* statement is typed by the taint of its address alone.
C35_BranchTaintIsScoped ==
    (Ran("If") \/ Ran("While")) =>
        LET e == history[1] IN
        /\ e.after.in_temporal_branch = e.before.in_temporal_branch
        /\ e.result.final_stack_types[Len(e.result.final_stack_types)] =
              (IF trajectory[4] = 1 THEN "Pure" ELSE "Temporal")

\* C36: after any sequence of add_breakpoint and remove_breakpoint calls no
\* two breakpoints of the Debugger have the same id: the id add_breakpoint
\* returns is held by no other breakpoint, and remove_breakpoint(id)
\* removes exactly the one breakpoint that id was returned for.
C36_BreakpointIdsAreUnique ==
    pc = "debugger" =>
        /\ \A i, j \in 1..Len(history) : history[i].id = history[j].id => i = j
        /\ outcome.kind = "Added" => outcome.held = 0
        /\ outcome.kind = "Removed" => outcome.removed <= 1

\* C37: compute_delta(old, new) returns exactly the addresses at which the
\* values of old and new differ, the set Memory::diff gives, on every call
\* whatever memories the earlier calls were given, addresses that are
\* nonzero in old and zero in new included.
C37_DeltaIsDiff ==
    (pc = "delta" /\ outcome.kind = "Delta") =>
        outcome.changed = MemDiff(history[1].old, history[1].new)

\* the bodies of StickyCases
Sticky == program > Len(VmPrograms) - Len(StickyCases)

\* C38: the status of an epoch moves once, from Running to a terminal value,
\* and stays: the status run_epoch returns is the one the first statement
\* that left Running gave it, also where that statement is inside a While
\* condition or a Match case body and other statements follow it.
C38_StatusIsSticky ==
    (program \in 1..Len(StopCases) \/ Sticky) =>
        \A i \in 1..Len(history) :
            history[i].result.status = ErrorIfErr(CutRun(history[i])).status

\* C40: the instruction budget is a hard bound: the instructions_executed of
\* the EpochResult of an epoch never exceeds max_instructions, whatever
\* statements the program contains, Match case bodies included.
C40_BudgetIsHardBound ==
    \A i \in 1..Len(history) :
        ~ history[i].result.panicked =>
            history[i].result.instructions_executed <= executor.config.max_instructions

\* both modes have run: first_outcome is what Standard returned, outcome
\* what Diagnostic returned
BothModes == Done /\ run_no = 2 /\ config.mode = "Diagnostic"

\* the same variant, with the fields the modes are to agree on
SameStatus(s, d) ==
    /\ s.kind = d.kind
    /\ s.kind = "Consistent" =>
          /\ s.epochs = d.epochs
          /\ values_equal(s.memory, d.memory)
          /\ s.output = d.output
    /\ s.kind \in {"Paradox", "Error"} => s.epoch = d.epoch
    /\ s.kind = "Oscillation" =>
          /\ s.period = d.period
          /\ s.oscillating_cells = d.oscillating_cells

\* C39: Standard never returns Divergence, and where Diagnostic does not
\* return Divergence the two modes return the same variant: the same epochs
\* for Consistent, Paradox and Error, the same memory values and output for
\* Consistent, the same period and oscillating_cells for Oscillation.
C39_ModesAgreeButForDivergence ==
    /\ config.mode = "Standard" => outcome.kind # "Divergence"
    /\ (BothModes /\ outcome.kind # "Divergence") => SameStatus(first_outcome, outcome)

====
